---- MODULE Spec2Model ----
(***************************************************************************)
(* A model of pace.rs: the PACE block resolver (DataBlocks::from_PACE and  *)
(* the PullFromXXS / Process implementations of the blocks), the ACE->PACE *)
(* writer (convert_ACE_to_PACE) and block_range_to_slice.                  *)
(*                                                                         *)
(* An XXS word is modelled by the integer its block grammar reads from it: *)
(* the i64 bit pattern at a count or locator position, the f64 value at a  *)
(* real-valued position.  The two encodings of a word are told apart in    *)
(* the writer's model (SpecConvert), where the typing of a word by the     *)
(* textual form of its token matters.                                      *)
(***************************************************************************)
EXTENDS Integers, Sequences, FiniteSets, TLC

VARIABLES
    arrays,     \* the Arrays struct: [nxs, jxs, xxs] of the mapped PACE file
    pc,         \* position of DataBlocks::from_PACE
    cur,        \* index in ParseOrder of the block being parsed
    data,       \* the slice pull_from_xxs_array returned for the current block
    blocks,     \* the Option<block> locals of from_PACE
    pulled,     \* outcome of each block's pull_from_xxs_array
    started,    \* blocks whose parse has started, in order
    finished,   \* blocks whose parse has returned
    pending,    \* SIG::process: reactions whose worker has not inserted yet
    xs,         \* SIG::process: the Mutex<SigCrossSectionMap>
    inserted,   \* SIG::process: the order in which the workers took the lock
    reads,      \* every locator resolved so far, with the index it was read at
    cv,         \* convert_ACE_to_PACE: the conversion's state
    sl,         \* block_range_to_slice: the call and its outcome
    tb,         \* InterpolationTable: the table built and the interpolate call
    ad,         \* angular distributions: the construction and the sampling call
    dg          \* AsyncTaskDag::execute: the graph and the state of the run

vars == <<arrays, pc, cur, data, blocks, pulled, started, finished, pending,
          xs, inserted, reads, cv, sl, tb, ad, dg>>

resolverVars == <<arrays, pc, cur, data, blocks, pulled, started, finished,
                  pending, xs, inserted, reads>>

-----------------------------------------------------------------------------
(* Bounds of the model.                                                    *)

MaxNes == 2
MaxNtr == 2
MaxNpcr == 1

(* Reaction codes used in the generated files, and the TYR, LAND and       *)
(* per-energy locator shapes they are combined with.                       *)
MTs == {16, 18}
TyrVals == {0, 19, 5}
LandKinds == {"absent", "iso", "rec", "neg"}
AndShapes == { <<"tab">>, <<"equi">>, <<"iso", "iso">>, <<"tab", "iso">>,
               <<"equi", "tab">> }
TableShapes == {"lin0", "one", "two", "badscheme"}
NuKinds == {"poly", "tab", "both", "bothtab", "badtag"}
PadChoices == {0, 3}

(* Bounds of the ACE texts given to the writer: the number of XXS lines,  *)
(* and the number of lines of one parallel chunk (BATCH_SIZE, 1000 in the  *)
(* source, scaled down so that a text of MaxLines lines has several        *)
(* chunks).                                                                *)
MaxLines == 5
BatchLines == 2

(* Bound of the calls of block_range_to_slice: the length of XXS.          *)
MaxXxs == 4

-----------------------------------------------------------------------------
(* Results of operations that can panic or return an Option.               *)

Panic == [tag |-> "panic"]
NoneR == [tag |-> "none"]
Some(v) == [tag |-> "some", v |-> v]
IsSome(r) == r.tag = "some"

(* Results of operations that return a Result.                             *)
Err == [tag |-> "err"]
Ok(v) == [tag |-> "ok", v |-> v]

(* Result::unwrap                                                          *)
Unwrap(r) == IF r.tag = "ok" THEN Some(r.v) ELSE Panic

(* 0-based access to a Rust slice held as a sequence.                      *)
InR(s, i) == i >= 0 /\ i < Len(s)
At(s, i) == s[i + 1]
Slice0(s, lo, hi) == SubSeq(s, lo + 1, hi)
Abs(n) == IF n < 0 THEN -n ELSE n

RECURSIVE Cat(_)
Cat(ss) == IF ss = <<>> THEN <<>> ELSE Head(ss) \o Cat(Tail(ss))

RECURSIVE SumLen(_)
SumLen(ss) == IF ss = <<>> THEN 0 ELSE Len(Head(ss)) + SumLen(Tail(ss))

Range(s) == { s[i] : i \in DOMAIN s }

-----------------------------------------------------------------------------
(* The PACE files the resolver is run on.  A file is laid out block after  *)
(* block in JXS order, as an ACE writer lays it out, from a record p of    *)
(* choices; its JXS holds the 1-based start of every block it contains and *)
(* 0 for the others.  p.flip names one block whose JXS slot is then        *)
(* switched between 0 and non-zero, p.trunc drops the last word of XXS.    *)

BlockNames == {"ESZ", "NU", "MTR", "LQR", "TYR", "LSIG", "SIG", "LAND", "AND",
               "DNU", "BDD"}

LayoutOrder == <<"ESZ", "NU", "MTR", "LQR", "TYR", "LSIG", "SIG", "LAND", "AND",
                 "PAD", "DNU", "BDD">>

EszWords(nes) ==
    [j \in 1..(5 * nes) |-> 100 * (((j - 1) \div nes) + 1) + ((j - 1) % nes) + 1]

TableWords(shape) ==
    CASE shape = "lin0" -> <<0, 2, 1, 10, 1, 2>>
      [] shape = "one" -> <<1, 2, 2, 2, 1, 10, 1, 2>>
      [] shape = "two" -> <<2, 2, 3, 1, 2, 3, 1, 10, 30, 1, 2, 3>>
      [] shape = "badscheme" -> <<1, 2, 7, 2, 1, 10, 1, 2>>

PolyWords == <<1, 3, 10, 11, 12>>

TabWords(shape) == <<2>> \o TableWords(shape)

NuWords(kind, shape) ==
    CASE kind = "poly" -> <<Len(PolyWords)>> \o PolyWords
      [] kind = "tab" -> <<Len(TabWords(shape))>> \o TabWords(shape)
      [] kind = "both" -> <<-Len(PolyWords)>> \o PolyWords \o TabWords(shape)
      [] kind = "bothtab" ->
            <<-Len(TabWords(shape))>> \o TabWords(shape) \o PolyWords
      [] kind = "badtag" -> <<-Len(PolyWords)>> \o PolyWords \o <<3, 3, 10, 11, 12>>
      [] kind = "badfirst" -> <<5, 3, 3, 10, 11, 12>>

DnuWords(marker, shape) == <<marker>> \o TableWords(shape)

BddWords(npcr, shape) == Cat([k \in 1..npcr |-> <<k>> \o TableWords(shape)])

(* SIG: reaction i's sub-record covers the energy grid from est[i] on.     *)
SigRec(i, e, nes) == <<e, nes - e + 1>> \o [k \in 1..(nes - e + 1) |-> 1000 * i + k]

StoreOrder(ntr, rev) == [k \in 1..ntr |-> IF rev THEN ntr + 1 - k ELSE k]

SigRecs(est, nes, rev) ==
    LET ord == StoreOrder(Len(est), rev)
    IN  [k \in 1..Len(est) |-> SigRec(ord[k], est[ord[k]], nes)]

LsigWords(est, nes, rev) ==
    LET ntr == Len(est)
        pos(i) == IF rev THEN ntr + 1 - i ELSE i
    IN  [i \in 1..ntr |-> 1 + SumLen(SubSeq(SigRecs(est, nes, rev), 1, pos(i) - 1))]

(* AND: a reaction's record is [n_E, energies, locators] followed by the   *)
(* distributions its non-zero locators address.                            *)
TabRecWords == <<2, 2, -1, 1, 1, 1, 0, 1>>

EquiRecWords == [j \in 1..33 |-> IF j <= 16 THEN -1 ELSE IF j = 17 THEN 0 ELSE 1]

DistWords(kind) ==
    CASE kind = "iso" -> <<>>
      [] kind = "tab" -> TabRecWords
      [] kind = "equi" -> EquiRecWords

AndRec(ks, base) ==
    LET n == Len(ks)
        dstart(j) == base + 1 + 2 * n + SumLen([k \in 1..(j - 1) |-> DistWords(ks[k])])
        loc(j) == CASE ks[j] = "iso" -> 0
                    [] ks[j] = "tab" -> -(dstart(j) + 1)
                    [] ks[j] = "equi" -> dstart(j) + 1
    IN  <<n>> \o [j \in 1..n |-> 10 + j] \o [j \in 1..n |-> loc(j)]
            \o Cat([j \in 1..n |-> DistWords(ks[j])])

AndBase(shs, i) == SumLen([k \in 1..(i - 1) |-> AndRec(shs[k], 0)])

AndWords(shs) == Cat([i \in 1..Len(shs) |-> AndRec(shs[i], AndBase(shs, i))])

HasRec(kind) == kind \in {"rec", "neg"}

RecRank(lk, i) == Cardinality({k \in 1..i : HasRec(lk[k])})

RecHolders(lk) == Cardinality({k \in 1..Len(lk) : HasRec(lk[k])})

(* Entry 1 of LAND is the elastic channel, with shape sh1; the reactions   *)
(* that carry a record have shape sh2.                                     *)
AndShapesOf(lk, sh1, sh2) ==
    [r \in 1..RecHolders(lk) |-> IF HasRec(lk[1]) /\ r = 1 THEN sh1 ELSE sh2]

LandWords(lk, sh1, sh2) ==
    LET shs == AndShapesOf(lk, sh1, sh2)
    IN  [i \in 1..Len(lk) |->
            CASE lk[i] = "absent" -> -1
              [] lk[i] = "iso" -> 0
              [] lk[i] = "rec" -> AndBase(shs, RecRank(lk, i)) + 1
              [] lk[i] = "neg" -> -(AndBase(shs, RecRank(lk, i)) + 1)]

Contents(p) ==
    LET ntr == Len(p.mts)
    IN  [b \in Range(LayoutOrder) |->
            CASE b = "ESZ" -> EszWords(p.nes)
              [] b = "NU" -> IF p.fis THEN NuWords(p.nu, p.tab) ELSE <<>>
              [] b = "MTR" -> p.mts
              [] b = "LQR" -> [i \in 1..ntr |-> 40 + i]
              [] b = "TYR" -> p.tyr
              [] b = "LSIG" -> LsigWords(p.est, p.nes, p.rev)
              [] b = "SIG" -> Cat(SigRecs(p.est, p.nes, p.rev))
              [] b = "LAND" -> LandWords(p.land, p.sh1, p.sh2)
              [] b = "AND" -> AndWords(AndShapesOf(p.land, p.sh1, p.sh2))
              [] b = "PAD" -> [k \in 1..p.pad |-> 0]
              [] b = "DNU" -> IF p.fis THEN DnuWords(p.marker, p.tab) ELSE <<>>
              [] b = "BDD" -> IF p.fis THEN BddWords(p.npcr, p.tab) ELSE <<>>]

InLayout(p, b) ==
    CASE b \in {"ESZ", "LAND", "AND"} -> TRUE
      [] b \in {"MTR", "LQR", "TYR", "LSIG", "SIG"} -> Len(p.mts) # 0
      [] b \in {"NU", "DNU", "BDD"} -> p.fis

LayoutIndex(b) == CHOOSE k \in 1..Len(LayoutOrder) : LayoutOrder[k] = b

Start0(p, b) ==
    SumLen([k \in 1..(LayoutIndex(b) - 1) |-> Contents(p)[LayoutOrder[k]]])

BuildFile(p) ==
    LET c == Contents(p)
        words == Cat([k \in 1..Len(LayoutOrder) |-> c[LayoutOrder[k]]])
        slot(b) == IF InLayout(p, b) THEN Start0(p, b) + 1 ELSE 0
    IN  [nxs |-> [nes |-> p.nes, ntr |-> Len(p.mts), nr |-> Len(p.land) - 1,
                  npcr |-> p.npcr],
         jxs |-> [b \in BlockNames |->
                    IF p.flip = b THEN (IF slot(b) = 0 THEN 1 ELSE 0) ELSE slot(b)],
         xxs |-> IF p.trunc THEN SubSeq(words, 1, Len(words) - 1) ELSE words]

SeqsUpTo(S, n) == UNION { [1..k -> S] : k \in 0..n }

Default ==
    [nes |-> 2, mts |-> <<18>>, est |-> <<1>>, rev |-> FALSE, tyr |-> <<19>>,
     fis |-> TRUE, nu |-> "both", tab |-> "one", marker |-> 1, npcr |-> 1,
     land |-> <<"rec", "iso">>, sh1 |-> <<"tab", "iso">>, sh2 |-> <<"iso", "iso">>,
     pad |-> 0, flip |-> "none", trunc |-> FALSE]

(* Reaction lists, sub-record starts and storage orders for SIG.           *)
SigFamily ==
    { [Default EXCEPT !.nes = nes, !.mts = mts, !.est = est, !.rev = rev,
                      !.tyr = [i \in 1..Len(mts) |-> 19],
                      !.land = <<"rec">> \o [i \in 1..Len(mts) |-> "iso"],
                      !.fis = fis]
      : nes \in 1..MaxNes, mts \in SeqsUpTo(MTs, MaxNtr),
        est \in SeqsUpTo(1..MaxNes, MaxNtr), rev \in BOOLEAN, fis \in BOOLEAN }

SigFiles ==
    { p \in SigFamily : /\ Len(p.est) = Len(p.mts)
                        /\ \A i \in 1..Len(p.est) : p.est[i] <= p.nes
                        /\ (p.rev => Len(p.mts) >= 2) }

(* One JXS slot switched, with and without reactions and fission data.     *)
FlipFiles ==
    { [Default EXCEPT !.flip = b, !.fis = fis, !.mts = mts,
                      !.est = [i \in 1..Len(mts) |-> 1],
                      !.tyr = [i \in 1..Len(mts) |-> 19],
                      !.land = <<"rec">> \o [i \in 1..Len(mts) |-> "iso"],
                      !.npcr = npcr]
      : b \in BlockNames, fis \in BOOLEAN, mts \in {<<>>, <<18>>},
        npcr \in 0..MaxNpcr }

(* LAND entries and the shapes of the AND records.                         *)
ShapePairs ==
    { <<a, <<"iso", "iso">> >> : a \in AndShapes } \cup { << <<"tab">>, a>> : a \in AndShapes }

AndFile(ntr, t, lk, sh, pad) ==
    [Default EXCEPT !.mts = [i \in 1..ntr |-> IF i = 1 THEN 18 ELSE 16],
                    !.est = [i \in 1..ntr |-> 1],
                    !.tyr = [i \in 1..ntr |-> IF i = 1 THEN t ELSE 19],
                    !.land = lk, !.sh1 = sh[1], !.sh2 = sh[2], !.pad = pad,
                    !.fis = FALSE]

AndFiles ==
    { AndFile(ntr, 19, lk, sh, 3) :
        ntr \in 0..MaxNtr, lk \in SeqsUpTo(LandKinds, MaxNtr + 1), sh \in ShapePairs }

(* TYR values of a reaction against its LAND entry; AND as the last block  *)
(* of XXS and followed by other words.                                     *)
TyrFiles ==
    { AndFile(1, t, <<"rec", k>>, sh, pad) :
        t \in TyrVals, k \in LandKinds, sh \in ShapePairs, pad \in PadChoices }

AndFilesOk ==
    { p \in AndFiles : Len(p.land) >= 1 /\ Len(p.land) <= Len(p.mts) + 1 }
    \cup TyrFiles

(* The fission blocks: NU formulations, table shapes, precursor families.  *)
NuFiles ==
    { [Default EXCEPT !.nu = k, !.tab = sh, !.npcr = n, !.marker = m, !.trunc = tr]
      : k \in NuKinds \cup {"badfirst"}, sh \in TableShapes, n \in 0..MaxNpcr,
        m \in {0, 1}, tr \in BOOLEAN }

(* NU with the JXS slot of DNU at 0: the branch of NU::process that stores *)
(* a single formulation as total.                                          *)
SingleNuFiles ==
    { [Default EXCEPT !.nu = k, !.flip = "DNU"] : k \in {"poly", "tab", "both"} }

Files == SigFiles \cup FlipFiles \cup AndFilesOk \cup NuFiles \cup SingleNuFiles


-----------------------------------------------------------------------------
(* blocks/block_traits.rs                                                  *)

(* The 0-based start of a block whose JXS slot holds start_index           *)
(* (block_traits.rs:83).                                                   *)
JxsStartIndex(start_index) == start_index - 1

(* get_block_start without its two panics: a mismatch yields None.         *)
GetBlockStartLenient(b, arr, is_expected) ==
    LET start_index == arr.jxs[b]
    IN  IF is_expected /\ start_index # 0 THEN Some(start_index - 1) ELSE NoneR

(* get_block_start: the 0-based start of an expected block, None for an    *)
(* absent block that is not expected, a panic on a mismatch.               *)
GetBlockStart(b, arr, is_expected) ==
    LET start_index == arr.jxs[b]
    IN  IF is_expected
        THEN IF start_index = 0 THEN Panic ELSE Some(JxsStartIndex(start_index))
        ELSE IF start_index # 0 THEN Panic ELSE NoneR

(* block_range_to_slice with every end past the array pulled back to it.   *)
BlockRangeToSliceClamped(block_start, block_length, xxs) ==
    LET end0 == block_start + block_length
        block_end == IF end0 > Len(xxs) THEN Len(xxs) ELSE end0
    IN  IF block_start <= block_end /\ block_end <= Len(xxs)
        THEN [tag |-> "slice", lo |-> block_start, hi |-> block_end,
              words |-> Slice0(xxs, block_start, block_end)]
        ELSE Panic

(* block_range_to_slice: &xxs[block_start..block_end], with an end one     *)
(* past the array pulled back by one; slicing panics when the range is not *)
(* inside the array.  The slice is returned with its bounds.               *)
BlockRangeToSlice(block_start, block_length, xxs) ==
    LET end0 == block_start + block_length
        block_end == IF end0 = Len(xxs) + 1 THEN end0 - 1 ELSE end0
    IN  IF block_start <= block_end /\ block_end <= Len(xxs)
        THEN [tag |-> "slice", lo |-> block_start, hi |-> block_end,
              words |-> Slice0(xxs, block_start, block_end)]
        ELSE Panic

(* A length computation that panicked (an index outside the array) yields *)
(* NoLength instead of a length.                                           *)
NoLength == 0 - 1

Failed(length) == length < 0

(* The ? after get_block_start, then the slice of the computed length.     *)
SliceOrNone(start, length, xxs) ==
    IF start.tag # "some" THEN start
    ELSE IF Failed(length) THEN Panic
    ELSE BlockRangeToSlice(start.v, length, xxs)

-----------------------------------------------------------------------------
(* interpolation_table.rs                                                  *)

(* InterpolationScheme::from(usize): 1..6, a panic otherwise.              *)
SchemeNames == <<"Histogram", "LinLin", "LinLog", "LogLin", "LogLog", "Gamow">>

SchemeFrom(n) == IF n \in 1..6 THEN Some(SchemeNames[n]) ELSE Panic

(* InterpolationTable::get_table_length                                    *)
GetTableLength(table_start, a) ==
    IF ~InR(a, table_start) \/ At(a, table_start) < 0 THEN NoLength
    ELSE LET num_interp_regions == At(a, table_start)
         IN  IF num_interp_regions = 0
             THEN IF ~InR(a, table_start + 1) \/ At(a, table_start + 1) < 0 THEN NoLength
                  ELSE 2 + 2 * At(a, table_start + 1)
             ELSE LET table_length == 1 + 2 * num_interp_regions
                  IN  IF ~InR(a, table_start + table_length)
                         \/ At(a, table_start + table_length) < 0
                      THEN NoLength
                      ELSE table_length + 1 + 2 * At(a, table_start + table_length)

(* The points zip(x, y) of a table: np x values, and the y values up to    *)
(* the end of the slice.                                                   *)
ZipPoints(d, x_start, np) ==
    LET y_start == x_start + np
        ny == Len(d) - y_start
        n == IF ny < np THEN ny ELSE np
    IN  [k \in 1..n |-> <<At(d, x_start + k - 1), At(d, y_start + k - 1)>>]

(* The bounds read from the table, left 1-based.                           *)
ZeroBasedBoundKept(val) == val

(* A region bound converted to a 0-based point index                       *)
(* (interpolation_table.rs:95).                                            *)
ZeroBasedBound(val) == val - 1

(* skip(start).take(count - 1): a region without its last point.           *)
SkipTakeShort(s, start, count) ==
    LET hi == IF start + count - 1 < Len(s) THEN start + count - 1 ELSE Len(s)
    IN  SubSeq(s, start + 1, hi)

(* skip(start).take(count) over a sequence                                 *)
SkipTake(s, start, count) ==
    LET hi == IF start + count < Len(s) THEN start + count ELSE Len(s)
    IN  SubSeq(s, start + 1, hi)

(* InterpolationTable::process: a sequence of regions [scheme, pts].       *)
TableProcess(d) ==
    IF ~InR(d, 0) \/ At(d, 0) < 0 THEN Panic
    ELSE LET nr == At(d, 0)
         IN  IF nr = 0
             THEN IF ~InR(d, 1) \/ At(d, 1) < 0 \/ 2 + 2 * At(d, 1) > Len(d) THEN Panic
                  ELSE LET np == At(d, 1)
                       IN  Some(<< [scheme |-> "LinLin",
                                    pts |-> [k \in 1..np |->
                                               <<At(d, 1 + k), At(d, 1 + np + k)>>]] >>)
             ELSE LET schemes_start == 1 + nr
                      schemes_end == schemes_start + nr
                  IN  IF ~InR(d, schemes_end) \/ At(d, schemes_end) < 0 THEN Panic
                      ELSE LET np == At(d, schemes_end)
                               x_start == schemes_end + 1
                               bound(k) == IF k = 0 THEN 0 ELSE ZeroBasedBound(At(d, k))
                           IN  IF \/ x_start + np > Len(d)
                                  \/ \E k \in 1..nr : At(d, k) < 1
                                  \/ \E k \in 1..nr : bound(k) < bound(k - 1)
                                  \/ \E k \in 1..nr : SchemeFrom(At(d, nr + k)) = Panic
                               THEN Panic
                               ELSE Some([k \in 1..nr |->
                                      [scheme |-> SchemeFrom(At(d, nr + k)).v,
                                       pts |-> SkipTake(ZipPoints(d, x_start, np),
                                                        bound(k - 1),
                                                        bound(k) - bound(k - 1) + 1)]])


-----------------------------------------------------------------------------
(* pull_from_xxs_array of each block: the block's expectedness predicate,  *)
(* its JXS slot through get_block_start, and its length from the grammar.  *)

(* SIG's length loop (sig.rs:44-50): block_length starts at 1 and grows by *)
(* num_entries + 2 for each of the ntr reactions.                          *)
RECURSIVE SigLength(_, _, _, _)
SigLength(xxs, block_start, k, block_length) ==
    IF k = 0 THEN block_length
    ELSE IF ~InR(xxs, block_start + block_length)
            \/ At(xxs, block_start + block_length) < 0
         THEN NoLength
         ELSE SigLength(xxs, block_start, k - 1,
                        block_length + At(xxs, block_start + block_length) + 2)

(* NU's length (nu.rs:35-52)                                               *)
NuLength(xxs, block_start) ==
    IF ~InR(xxs, block_start) THEN NoLength
    ELSE LET flag == At(xxs, block_start)
             first_nu_length == Abs(flag) + 1
         IN  IF flag >= 0 THEN first_nu_length
             ELSE IF ~InR(xxs, block_start + first_nu_length) THEN NoLength
             ELSE LET tag == At(xxs, block_start + first_nu_length)
                      total_nu_start == block_start + first_nu_length + 1
                  IN  IF tag = 1
                      THEN IF ~InR(xxs, total_nu_start) \/ At(xxs, total_nu_start) < 0
                           THEN NoLength
                           ELSE first_nu_length + 2 + At(xxs, total_nu_start)
                      ELSE IF tag = 2
                      THEN IF Failed(GetTableLength(total_nu_start, xxs)) THEN NoLength
                           ELSE first_nu_length + 1 + GetTableLength(total_nu_start, xxs)
                      ELSE NoLength

(* DNU's length (dnu.rs:38-39)                                             *)
DnuLength(xxs, block_start) ==
    IF Failed(GetTableLength(block_start + 1, xxs)) THEN NoLength
    ELSE 1 + GetTableLength(block_start + 1, xxs)

(* BDD's length loop (bdd.rs:32-41)                                        *)
RECURSIVE BddLength(_, _, _, _)
BddLength(xxs, block_start, k, block_length) ==
    IF k = 0 THEN block_length
    ELSE IF Failed(GetTableLength(block_start + block_length + 1, xxs)) THEN NoLength
         ELSE BddLength(xxs, block_start, k - 1,
                        block_length + 1
                            + GetTableLength(block_start + block_length + 1, xxs))

SetMax(S) == CHOOSE m \in S : \A n \in S : n <= m

(* Iterator::max_by_key(|x| x.abs()) over the non-zero locators: the last  *)
(* element of greatest magnitude, 0 when there is none.                    *)
MaxByAbs(s) ==
    LET nz == { i \in DOMAIN s : s[i] # 0 }
    IN  IF nz = {} THEN 0
        ELSE LET m == SetMax({ Abs(s[i]) : i \in nz })
             IN  s[SetMax({ i \in nz : Abs(s[i]) = m })]

(* AND's length (and.rs:58-109), from the LAND slice.                      *)
AndLength(xxs, block_start, land_words) ==
    LET offs == { land_words[i] : i \in DOMAIN land_words } \ {-1, 0}
        last_and_entry_relative_index == IF offs = {} THEN 1 ELSE Abs(SetMax(offs))
        last_and_entry_start == block_start + last_and_entry_relative_index
    IN  IF ~InR(xxs, last_and_entry_start - 1) \/ At(xxs, last_and_entry_start - 1) < 0
        THEN NoLength
        ELSE LET ne == At(xxs, last_and_entry_start - 1)
             IN  IF last_and_entry_start + 2 * ne > Len(xxs) THEN NoLength
                 ELSE LET maxloc == MaxByAbs(Slice0(xxs, last_and_entry_start + ne,
                                                    last_and_entry_start + 2 * ne))
                      IN  IF maxloc = 0 THEN 1
                          ELSE IF maxloc > 0 THEN maxloc + 33 + 1
                          ELSE IF ~InR(xxs, block_start + Abs(maxloc))
                                  \/ At(xxs, block_start + Abs(maxloc)) < 0
                               THEN NoLength
                               ELSE Abs(maxloc) + 3 * At(xxs, block_start + Abs(maxloc)) + 1

(* Expectedness with DNU and BDD gated by their own JXS slots.             *)
IsExpectedOwnSlot(b, arr) ==
    CASE b \in {"ESZ", "LAND", "AND"} -> TRUE
      [] b \in {"MTR", "LQR", "LSIG", "SIG", "TYR"} -> arr.nxs.ntr # 0
      [] b \in {"NU", "DNU", "BDD"} -> arr.jxs[b] # 0

(* The expectedness predicate each pull passes to get_block_start.         *)
IsExpected(b, arr) ==
    CASE b \in {"ESZ", "LAND", "AND"} -> TRUE
      [] b \in {"MTR", "LQR", "LSIG", "SIG", "TYR"} -> arr.nxs.ntr # 0
      [] b \in {"NU", "DNU", "BDD"} -> arr.jxs["NU"] # 0

BlockStart(b, arr) == GetBlockStart(b, arr, IsExpected(b, arr))

LandPull(arr) ==
    SliceOrNone(BlockStart("LAND", arr), arr.nxs.nr + 1, arr.xxs)

BlockLength(b, arr, start) ==
    CASE b = "ESZ" -> 5 * arr.nxs.nes
      [] b \in {"MTR", "LQR", "LSIG", "TYR"} -> arr.nxs.ntr
      [] b = "SIG" -> SigLength(arr.xxs, start, arr.nxs.ntr, 1)
      [] b = "NU" -> NuLength(arr.xxs, start)
      [] b = "DNU" -> DnuLength(arr.xxs, start)
      [] b = "BDD" -> BddLength(arr.xxs, start, arr.nxs.npcr, 0)
      [] b = "LAND" -> arr.nxs.nr + 1
      [] b = "AND" -> IF LandPull(arr).tag # "slice" THEN NoLength
                      ELSE AndLength(arr.xxs, start, LandPull(arr).words)

PullFromXXS(b, arr) ==
    LET start == BlockStart(b, arr)
    IN  IF start.tag # "some" THEN start
        ELSE SliceOrNone(start, BlockLength(b, arr, start.v), arr.xxs)


-----------------------------------------------------------------------------
(* process of each block.  A HashMap is a function on its keys; collecting *)
(* (key, value) pairs into one keeps the last pair of a repeated key.      *)

MapFromPairs(keys, vals) ==
    [k \in Range(keys) |->
        vals[SetMax({ i \in DOMAIN keys : keys[i] = k })]]

(* MTNumber::ElasticScattering as usize                                    *)
ElasticScattering == 2

(* ESZ::process (esz.rs:47-61)                                             *)
EszProcess(d, arr) ==
    LET n == arr.nxs.nes
    IN  IF 5 * n > Len(d) THEN Panic
        ELSE Some([energy |-> Slice0(d, 0, n),
                   total_xs |-> Slice0(d, n, 2 * n),
                   dissapearance_xs |-> Slice0(d, 2 * n, 3 * n),
                   elastic_xs |-> Slice0(d, 3 * n, 4 * n),
                   average_heating_numbers |-> Slice0(d, 4 * n, 5 * n)])

(* LQR::process (lqr.rs:51-53): mtr.as_ref().unwrap()[i] for each word     *)
LqrProcess(d, mtr) ==
    IF mtr.tag # "some" \/ Len(d) > Len(mtr.v) THEN Panic
    ELSE Some(MapFromPairs(SubSeq(mtr.v, 1, Len(d)), d))

(* NumberOfExitingNeutrons::from (tyr.rs:95-108)                           *)
NeutronRelease(value) ==
    LET a == Abs(value)
    IN  IF a = 0 THEN Some("Absorption")
        ELSE IF a \in 1..4 THEN Some("Discrete")
        ELSE IF a > 100 \/ a = 19 THEN Some("EnergyDependent")
        ELSE Panic

(* ExitingNeutronFrameOfReference::from (tyr.rs:119-127)                   *)
FrameOfReference(value) ==
    IF value = 0 THEN "NoRelease"
    ELSE IF value > 0 THEN "Laboratory" ELSE "CenterOfMass"

(* TYR::process (tyr.rs:50-64)                                             *)
TyrProcess(d, mtr) ==
    IF mtr.tag # "some" \/ Len(d) > Len(mtr.v) THEN Panic
    ELSE IF \E i \in DOMAIN d : NeutronRelease(d[i]) = Panic THEN Panic
    ELSE Some(MapFromPairs(SubSeq(mtr.v, 1, Len(d)),
                           [i \in DOMAIN d |->
                              [value |-> d[i],
                               neutron_release |-> NeutronRelease(d[i]).v,
                               frame_of_reference |-> FrameOfReference(d[i])]]))

(* One formulation of NU (nu.rs:68-76 and 81-89): f is the formulation's   *)
(* words, tag first.                                                       *)
NuFormulation(f) ==
    IF ~InR(f, 0) THEN Panic
    ELSE IF At(f, 0) = 1
         THEN IF Len(f) < 2 THEN Panic
              ELSE Some([tag |-> "Polynomial", coefficients |-> Slice0(f, 2, Len(f))])
    ELSE IF At(f, 0) = 2
         THEN IF TableProcess(Slice0(f, 1, Len(f))) = Panic THEN Panic
              ELSE Some([tag |-> "Tabulated",
                         table |-> TableProcess(Slice0(f, 1, Len(f))).v])
    ELSE Panic

(* The single formulation stored as prompt whenever the file is fissile.   *)
SingleIsPromptWhenFissile(arr) == arr.jxs["NU"] # 0

(* The branch of NU::process that stores a single formulation (nu.rs:95).  *)
SingleIsPrompt(arr) == arr.jxs["DNU"] # 0

(* NU::process (nu.rs:62-106)                                              *)
NuProcess(d, arr) ==
    IF ~InR(d, 0) THEN Panic
    ELSE LET flag == At(d, 0)
             first_nu_length == Abs(flag)
         IN  IF first_nu_length + 1 > Len(d) THEN Panic
             ELSE LET first == NuFormulation(Slice0(d, 1, first_nu_length + 1))
                      second == NuFormulation(Slice0(d, first_nu_length + 1, Len(d)))
                  IN  IF first = Panic THEN Panic
                      ELSE IF flag < 0
                      THEN IF second = Panic THEN Panic
                           ELSE Some([prompt |-> first, total |-> second])
                      ELSE IF SingleIsPrompt(arr)
                      THEN Some([prompt |-> first, total |-> NoneR])
                      ELSE Some([prompt |-> NoneR, total |-> first])

(* DNU::process (dnu.rs:49-52)                                             *)
DnuProcess(d) ==
    IF Len(d) < 1 THEN Panic ELSE TableProcess(Slice0(d, 1, Len(d)))

(* BDD::process (bdd.rs:51-68): the precursor groups from offset on.       *)
RECURSIVE BddGroups(_, _, _)
BddGroups(d, k, offset) ==
    IF k = 0 THEN Some(<<>>)
    ELSE IF ~InR(d, offset) \/ Failed(GetTableLength(offset + 1, d)) THEN Panic
    ELSE LET len == GetTableLength(offset + 1, d)
         IN  IF offset + 1 + len > Len(d) THEN Panic
             ELSE LET table == TableProcess(Slice0(d, offset + 1, offset + 1 + len))
                      rest == BddGroups(d, k - 1, offset + 1 + len)
                  IN  IF table = Panic \/ rest = Panic THEN Panic
                      ELSE Some(<< [decay_constant |-> At(d, offset) * 100000000,
                                    table |-> table.v] >> \o rest.v)

BddProcess(d, arr) == BddGroups(d, arr.nxs.npcr, 0)

(* LAND::process (land.rs:51-70)                                           *)
LandProcess(d, mtr) ==
    IF Len(d) < 1 THEN Panic
    ELSE IF mtr.tag = "some" /\ Len(d) - 1 > Len(mtr.v) THEN Panic
    ELSE LET keys == (IF mtr.tag = "some" THEN SubSeq(mtr.v, 1, Len(d) - 1) ELSE <<>>)
                        \o <<ElasticScattering>>
             vals == (IF mtr.tag = "some" THEN Slice0(d, 1, Len(d)) ELSE <<>>)
                        \o <<At(d, 0)>>
         IN  Some(MapFromPairs(keys, vals))

(* TYR::mt_values_with_neutron_release (tyr.rs:68-73)                      *)
MtValuesWithNeutronRelease(tyr) ==
    { mt \in DOMAIN tyr : tyr[mt].neutron_release # "Absorption" }

(* LAND::mt_values_with_distributions (land.rs:74-90)                      *)
MtValuesWithDistributions(land, tyr) ==
    (IF tyr.tag = "some"
     THEN { mt \in DOMAIN tyr.v : mt \in DOMAIN land /\ land[mt] # -1 }
     ELSE {})
    \cup {ElasticScattering}


-----------------------------------------------------------------------------
(* The index each 1-based locator is read at.                              *)

(* SIG::process (sig.rs:72): the first word of the sub-record at LSIG      *)
(* offset start_pos.                                                       *)
SigFirstIndex(start_pos) == start_pos - 1

(* AND::process (and.rs:142-144): the first word of the reaction record at *)
(* LAND offset mt_index.                                                   *)
ReactionStartIndex(mt_index) == Abs(mt_index) - 1

(* AND::process (and.rs:164): the first word of a tabulated distribution.  *)
TabulatedStartIndex(locator) == Abs(locator) - 1

(* AND::process (and.rs:171): the first word of the 33 bin boundaries.     *)
EquiprobableStartIndex(locator) == locator

-----------------------------------------------------------------------------
(* Angular distributions                                                   *)

CAPACITY == 33

(* TabulatedAngularDistribution::new                                       *)
TabulatedNew(interpolation_scheme, cos_theta_bins, cos_theta_cdf) ==
    IF interpolation_scheme \notin {"Histogram", "LinLin"} THEN Err
    ELSE IF Len(cos_theta_bins) # Len(cos_theta_cdf) THEN Err
    ELSE Ok([tag |-> "Tabulated", scheme |-> interpolation_scheme,
             x |-> cos_theta_cdf, y |-> cos_theta_bins])

(* EquiprobableBinsAngularDistribution::new; the CDF i/32 is kept as i.    *)
EquiprobableNew(cos_theta_bins) ==
    IF Len(cos_theta_bins) # CAPACITY THEN Err
    ELSE IF \E i \in DOMAIN cos_theta_bins :
                cos_theta_bins[i] < -1 \/ cos_theta_bins[i] > 1
    THEN Err
    ELSE Ok([tag |-> "EquiprobableBins", scheme |-> "LinLin",
             x |-> [i \in 1..CAPACITY |-> i - 1],
             y |-> SortSeq(cos_theta_bins, LAMBDA a, b : a < b)])

(* make_tabulated_distribution_from_data (and.rs:201-221)                  *)
MakeTabulated(d, start_index) ==
    IF ~InR(d, start_index) \/ ~InR(d, start_index + 1) THEN Panic
    ELSE IF SchemeFrom(At(d, start_index)) = Panic \/ At(d, start_index + 1) < 0
    THEN Panic
    ELSE LET num_points == At(d, start_index + 1)
             cos_theta_values_index == start_index + 2
             cos_theta_cdf_index == cos_theta_values_index + 2 * num_points
         IN  IF cos_theta_cdf_index + num_points > Len(d) THEN Panic
             ELSE Unwrap(TabulatedNew(SchemeFrom(At(d, start_index)).v,
                      Slice0(d, cos_theta_values_index,
                             cos_theta_values_index + num_points),
                      Slice0(d, cos_theta_cdf_index, cos_theta_cdf_index + num_points)))

(* The match on a per-energy locator (and.rs:160-178)                      *)
AndDistribution(d, locator) ==
    IF locator < 0 THEN MakeTabulated(d, TabulatedStartIndex(locator))
    ELSE IF locator > 0
    THEN IF EquiprobableStartIndex(locator) + CAPACITY > Len(d) THEN Panic
         ELSE Unwrap(EquiprobableNew(Slice0(d, EquiprobableStartIndex(locator),
                                            EquiprobableStartIndex(locator) + CAPACITY)))
    ELSE Some([tag |-> "Isotropic"])

(* The energies 1.0e-11 and 3.0e1 of new_fully_isotropic, as integers in   *)
(* the same order.                                                         *)
TinyEnergy == 1

TopEnergy == 300

(* EnergyDependentAngularDistribution::new_fully_isotropic                 *)
NewFullyIsotropic ==
    [energy |-> <<TinyEnergy, TopEnergy>>,
     distributions |-> << [tag |-> "Isotropic"], [tag |-> "Isotropic"] >>]

(* The per-energy locators of the reaction record at LAND offset mt_index, *)
(* <<>> when they cannot be read.                                          *)
AndLocators(d, mt_index) ==
    LET i0 == ReactionStartIndex(mt_index)
    IN  IF ~InR(d, i0) \/ At(d, i0) < 0 THEN <<>>
        ELSE IF i0 + 1 + 2 * At(d, i0) > Len(d) THEN <<>>
        ELSE Slice0(d, i0 + 1 + At(d, i0), i0 + 1 + 2 * At(d, i0))

(* One turn of the loop of AND::process (and.rs:128-188)                   *)
AndReaction(d, mt_index) ==
    IF mt_index = 0 THEN Some(NewFullyIsotropic)
    ELSE LET i0 == ReactionStartIndex(mt_index)
         IN  IF ~InR(d, i0) \/ At(d, i0) < 0 THEN Panic
             ELSE LET num_energy_points == At(d, i0)
                      locs == AndLocators(d, mt_index)
                  IN  IF i0 + 1 + 2 * num_energy_points > Len(d) THEN Panic
                      ELSE IF \E j \in DOMAIN locs : AndDistribution(d, locs[j]) = Panic
                      THEN Panic
                      ELSE Some([energy |-> Slice0(d, i0 + 1, i0 + 1 + num_energy_points),
                                 distributions |->
                                    [j \in DOMAIN locs |-> AndDistribution(d, locs[j]).v]])

(* AND::process (and.rs:119-192)                                           *)
AndProcess(d, tyr, land) ==
    IF land.tag # "some" THEN Panic
    ELSE LET mts == MtValuesWithDistributions(land.v, tyr)
         IN  IF \E mt \in mts : mt \notin DOMAIN land.v THEN Panic
             ELSE IF \E mt \in mts : AndReaction(d, land.v[mt]) = Panic THEN Panic
             ELSE Some([mt \in mts |-> AndReaction(d, land.v[mt]).v])


-----------------------------------------------------------------------------
(* SIG::process                                                            *)

(* The worker with the cross sections taken from one word too early.       *)
SigEntryXsShifted(d, mt, start_pos, esz) ==
    LET i0 == SigFirstIndex(start_pos)
    IN  IF ~InR(d, i0) \/ ~InR(d, i0 + 1) THEN Panic
        ELSE LET energy_start_index == At(d, i0)
                 num_xs_values == At(d, i0 + 1)
             IN  IF \/ num_xs_values < 0
                    \/ energy_start_index < 1
                    \/ i0 + 2 + num_xs_values > Len(d)
                    \/ energy_start_index - 1 + num_xs_values > Len(esz.energy)
                 THEN Panic
                 ELSE Some([mt |-> mt,
                            energy |-> Slice0(esz.energy, energy_start_index - 1,
                                              energy_start_index - 1 + num_xs_values),
                            xs_val |-> Slice0(d, i0 + 1, i0 + 1 + num_xs_values)])

(* The body of one worker (sig.rs:70-83): the entry it inserts for the     *)
(* reaction (mt, start_pos).                                               *)
SigEntry(d, mt, start_pos, esz) ==
    LET i0 == SigFirstIndex(start_pos)
    IN  IF ~InR(d, i0) \/ ~InR(d, i0 + 1) THEN Panic
        ELSE LET energy_start_index == At(d, i0)
                 num_xs_values == At(d, i0 + 1)
             IN  IF \/ num_xs_values < 0
                    \/ energy_start_index < 1
                    \/ i0 + 2 + num_xs_values > Len(d)
                    \/ energy_start_index - 1 + num_xs_values > Len(esz.energy)
                 THEN Panic
                 ELSE Some([mt |-> mt,
                            energy |-> Slice0(esz.energy, energy_start_index - 1,
                                              energy_start_index - 1 + num_xs_values),
                            xs_val |-> Slice0(d, i0 + 2, i0 + 2 + num_xs_values)])

(* HashMap::insert                                                         *)
Insert(map, key, value) ==
    [k \in (DOMAIN map) \cup {key} |-> IF k = key THEN value ELSE map[k]]

EmptyMap == [k \in {} |-> 0]

-----------------------------------------------------------------------------
(* The locators AND::process resolves, each with the index its record is   *)
(* read at.                                                                *)
AndReads(d, tyr, land) ==
    LET mts == { mt \in MtValuesWithDistributions(land, tyr) : land[mt] # 0 }
    IN  { [kind |-> "LAND", loc |-> land[mt], idx |-> ReactionStartIndex(land[mt])]
            : mt \in mts }
        \cup
        UNION { { [kind |-> IF AndLocators(d, land[mt])[j] < 0 THEN "tabulated"
                                                               ELSE "equiprobable",
                   loc |-> AndLocators(d, land[mt])[j],
                   idx |-> IF AndLocators(d, land[mt])[j] < 0
                           THEN TabulatedStartIndex(AndLocators(d, land[mt])[j])
                           ELSE EquiprobableStartIndex(AndLocators(d, land[mt])[j])]
                  : j \in { k \in DOMAIN AndLocators(d, land[mt]) :
                               AndLocators(d, land[mt])[k] # 0 } }
                : mt \in mts }

-----------------------------------------------------------------------------
(* DataBlocks::from_PACE                                                   *)

(* The parse calls with SIG moved before LSIG.                             *)
ParseOrderSigEarly == <<"ESZ", "MTR", "LQR", "SIG", "LSIG", "TYR", "NU", "DNU",
                        "BDD", "LAND", "AND">>

(* The order of the parse calls (block_processor.rs:55-139)                *)
ParseOrder == <<"ESZ", "MTR", "LQR", "LSIG", "SIG", "TYR", "NU", "DNU", "BDD",
                "LAND", "AND">>

Unparsed == [tag |-> "unparsed"]

(* process of the blocks decoded by one thread                             *)
ProcessBlock(b, d, arr, blk) ==
    CASE b = "ESZ" -> EszProcess(d, arr)
      [] b = "MTR" -> Some(d)
      [] b = "LSIG" -> Some(d)
      [] b = "LQR" -> LqrProcess(d, blk["MTR"])
      [] b = "TYR" -> TyrProcess(d, blk["MTR"])
      [] b = "NU" -> NuProcess(d, arr)
      [] b = "DNU" -> DnuProcess(d)
      [] b = "BDD" -> BddProcess(d, arr)
      [] b = "LAND" -> LandProcess(d, blk["MTR"])
      [] b = "AND" -> AndProcess(d, blk["TYR"], blk["LAND"])

(* The record kept of one pull_from_xxs_array call.                        *)
PullRecord(b, arr) ==
    [block |-> b, is_expected |-> IsExpected(b, arr), slot |-> arr.jxs[b],
     start |-> BlockStart(b, arr).tag, outcome |-> PullFromXXS(b, arr).tag]

JxsReads(b, arr) ==
    IF BlockStart(b, arr).tag = "some"
    THEN { [kind |-> "JXS", loc |-> arr.jxs[b], idx |-> BlockStart(b, arr).v] }
    ELSE {}

AfterParse == IF cur = Len(ParseOrder) THEN "return" ELSE "pull"

Idle == [tag |-> "idle"]

Init ==
    /\ arrays \in { BuildFile(p) : p \in Files }
    /\ pc = "pull"
    /\ cur = 1
    /\ data = NoneR
    /\ blocks = [b \in BlockNames |-> Unparsed]
    /\ pulled = {}
    /\ started = <<>>
    /\ finished = <<>>
    /\ pending = {}
    /\ xs = EmptyMap
    /\ inserted = <<>>
    /\ reads = {}
    /\ cv = Idle
    /\ sl = Idle
    /\ tb = Idle
    /\ ad = Idle
    /\ dg = Idle

(* X::parse begins: pull_from_xxs_array returns a slice.                   *)
PullSlice ==
    /\ pc = "pull"
    /\ PullFromXXS(ParseOrder[cur], arrays).tag = "slice"
    /\ data' = PullFromXXS(ParseOrder[cur], arrays)
    /\ pc' = "process"
    /\ started' = Append(started, ParseOrder[cur])
    /\ pulled' = pulled \cup {PullRecord(ParseOrder[cur], arrays)}
    /\ reads' = reads \cup JxsReads(ParseOrder[cur], arrays)
    /\ UNCHANGED <<arrays, cur, blocks, finished, pending, xs, inserted, cv, sl, tb, ad, dg>>

(* pull_from_xxs_array returns None and so does parse.                     *)
PullNone ==
    /\ pc = "pull"
    /\ PullFromXXS(ParseOrder[cur], arrays).tag = "none"
    /\ blocks' = [blocks EXCEPT ![ParseOrder[cur]] = NoneR]
    /\ pc' = AfterParse
    /\ cur' = cur + 1
    /\ started' = Append(started, ParseOrder[cur])
    /\ finished' = Append(finished, ParseOrder[cur])
    /\ pulled' = pulled \cup {PullRecord(ParseOrder[cur], arrays)}
    /\ UNCHANGED <<arrays, data, pending, xs, inserted, reads, cv, sl, tb, ad, dg>>

(* pull_from_xxs_array panics.                                             *)
PullAbort ==
    /\ pc = "pull"
    /\ PullFromXXS(ParseOrder[cur], arrays).tag = "panic"
    /\ pc' = "aborted"
    /\ started' = Append(started, ParseOrder[cur])
    /\ pulled' = pulled \cup {PullRecord(ParseOrder[cur], arrays)}
    /\ reads' = reads \cup JxsReads(ParseOrder[cur], arrays)
    /\ UNCHANGED <<arrays, cur, data, blocks, finished, pending, xs, inserted, cv, sl, tb, ad, dg>>


(* X::process returns and so does parse (every block but SIG).             *)
ProcessOk ==
    /\ pc = "process"
    /\ ParseOrder[cur] # "SIG"
    /\ ProcessBlock(ParseOrder[cur], data.words, arrays, blocks).tag = "some"
    /\ blocks' = [blocks EXCEPT ![ParseOrder[cur]] =
                     ProcessBlock(ParseOrder[cur], data.words, arrays, blocks)]
    /\ reads' = IF ParseOrder[cur] = "AND"
                THEN reads \cup AndReads(data.words, blocks["TYR"], blocks["LAND"].v)
                ELSE reads
    /\ pc' = AfterParse
    /\ cur' = cur + 1
    /\ finished' = Append(finished, ParseOrder[cur])
    /\ UNCHANGED <<arrays, data, pulled, started, pending, xs, inserted, cv, sl, tb, ad, dg>>

(* X::process panics.                                                      *)
ProcessAbort ==
    /\ pc = "process"
    /\ ParseOrder[cur] # "SIG"
    /\ ProcessBlock(ParseOrder[cur], data.words, arrays, blocks).tag = "panic"
    /\ pc' = "aborted"
    /\ UNCHANGED <<arrays, cur, data, blocks, pulled, started, finished, pending,
                   xs, inserted, reads, cv, sl, tb, ad, dg>>

(* SIG::process unwraps its dependencies, creates the map and hands one    *)
(* (mt, start_pos) pair to a worker for each position of the zip           *)
(* (sig.rs:62-70).                                                         *)
SigFork ==
    /\ pc = "process"
    /\ ParseOrder[cur] = "SIG"
    /\ IF \A dep \in {"MTR", "LSIG", "ESZ"} : blocks[dep].tag = "some"
       THEN /\ pc' = "sig"
            /\ pending' = { i \in DOMAIN blocks["MTR"].v : i \in DOMAIN blocks["LSIG"].v }
       ELSE /\ pc' = "aborted"
            /\ pending' = pending
    /\ xs' = EmptyMap
    /\ inserted' = <<>>
    /\ UNCHANGED <<arrays, cur, data, blocks, pulled, started, finished, reads, cv, sl, tb, ad, dg>>

(* One worker of SIG::process: it builds its entry, takes the lock and     *)
(* inserts it (sig.rs:70-84); a panic in a worker ends the parse.          *)
SigWorker(i) ==
    /\ pc = "sig"
    /\ i \in pending
    /\ LET entry == SigEntry(data.words, blocks["MTR"].v[i], blocks["LSIG"].v[i],
                             blocks["ESZ"].v)
       IN  IF entry.tag = "some"
           THEN /\ xs' = Insert(xs, blocks["MTR"].v[i], entry.v)
                /\ inserted' = Append(inserted, i)
                /\ pending' = pending \ {i}
                /\ reads' = reads \cup
                      { [kind |-> "LSIG", loc |-> blocks["LSIG"].v[i],
                         idx |-> SigFirstIndex(blocks["LSIG"].v[i])] }
                /\ pc' = pc
           ELSE /\ pc' = "aborted"
                /\ UNCHANGED <<xs, inserted, pending, reads>>
    /\ UNCHANGED <<arrays, cur, data, blocks, pulled, started, finished, cv, sl, tb, ad, dg>>

(* for_each has returned: xs.into_inner() is the block (sig.rs:86).        *)
SigJoin ==
    /\ pc = "sig"
    /\ pending = {}
    /\ blocks' = [blocks EXCEPT !["SIG"] = Some(xs)]
    /\ pc' = AfterParse
    /\ cur' = cur + 1
    /\ finished' = Append(finished, "SIG")
    /\ UNCHANGED <<arrays, data, pulled, started, pending, xs, inserted, reads, cv, sl, tb, ad, dg>>

(* Ok(Self { .. }) (block_processor.rs:145-159)                            *)
ReturnOk ==
    /\ pc = "return"
    /\ pc' = "done"
    /\ UNCHANGED <<arrays, cur, data, blocks, pulled, started, finished, pending,
                   xs, inserted, reads, cv, sl, tb, ad, dg>>

Next ==
    \/ PullSlice
    \/ PullNone
    \/ PullAbort
    \/ ProcessOk
    \/ ProcessAbort
    \/ SigFork
    \/ \E i \in 1..(MaxNtr + 1) : SigWorker(i)
    \/ SigJoin
    \/ ReturnOk

Spec == Init /\ [][Next]_vars


-----------------------------------------------------------------------------
(* Properties of the resolver                                              *)

Last(s) == s[Len(s)]

FixedOrder == <<"ESZ", "MTR", "LQR", "LSIG", "SIG", "TYR", "NU", "DNU", "BDD",
                "LAND", "AND">>

DependenciesOf(b) ==
    CASE b \in {"LQR", "TYR", "LAND"} -> {"MTR"}
      [] b = "SIG" -> {"MTR", "LSIG", "ESZ"}
      [] b = "AND" -> {"TYR", "LAND"}
      [] OTHER -> {}

(* C1: whenever a block's parse starts, the parses started so far are a    *)
(* prefix of ESZ, MTR, LQR, LSIG, SIG, TYR, NU, DNU, BDD, LAND, AND, and   *)
(* the parse of every block it depends on has already finished.            *)
C1_FixedOrder ==
    [][started' # started =>
          /\ started' = SubSeq(FixedOrder, 1, Len(started'))
          /\ DependenciesOf(Last(started')) \subseteq Range(finished)]_vars

(* A run that parsed all eleven blocks, SIG and AND with their             *)
(* dependencies present.                                                   *)
C1_Witness ==
    /\ pc = "done"
    /\ started = FixedOrder
    /\ finished = FixedOrder
    /\ \A b \in {"MTR", "LSIG", "ESZ", "SIG", "TYR", "LAND", "AND"} :
          blocks[b].tag = "some"

Mismatch(r) ==
    \/ r.is_expected /\ r.slot = 0
    \/ ~r.is_expected /\ r.slot # 0

(* C2: a pull whose expectedness and JXS slot disagree panics and the      *)
(* parse is aborted; a pull yields a slice only when the block is expected *)
(* and its slot is non-zero, and None only when it is not expected and its *)
(* slot is 0.                                                              *)
C2_StrictExpectedness ==
    \A r \in pulled :
        /\ Mismatch(r) => r.outcome = "panic" /\ pc = "aborted"
        /\ r.outcome = "slice" => r.is_expected /\ r.slot # 0
        /\ r.outcome = "none" => ~r.is_expected /\ r.slot = 0

(* An unexpected block with a non-zero slot, after slices and Nones of     *)
(* earlier blocks.                                                         *)
C2_Witness ==
    /\ pc = "aborted"
    /\ \E r \in pulled : ~r.is_expected /\ r.slot # 0
    /\ \E r \in pulled : r.outcome = "slice"
    /\ \E r \in pulled : r.outcome = "none"

Presence(gate) == IF gate THEN "some" ELSE "none"

(* C3: when from_PACE has returned Ok, NU, DNU and BDD are all Some if     *)
(* JXS[NU] is non-zero and all None otherwise, and MTR, LQR, LSIG, SIG and *)
(* TYR are all Some if NXS.ntr is non-zero and all None otherwise.         *)
C3_Gating ==
    pc = "done" =>
        /\ \A b \in {"NU", "DNU", "BDD"} :
              blocks[b].tag = Presence(arrays.jxs["NU"] # 0)
        /\ \A b \in {"MTR", "LQR", "LSIG", "SIG", "TYR"} :
              blocks[b].tag = Presence(arrays.nxs.ntr # 0)

(* A successful parse of a file with fission data and no reactions.        *)
C3_Witness ==
    /\ pc = "done"
    /\ arrays.jxs["NU"] # 0
    /\ arrays.nxs.ntr = 0
    /\ blocks["BDD"].tag = "some"
    /\ blocks["SIG"].tag = "none"


-----------------------------------------------------------------------------
(* Properties of SIG, stated on the words of the file.                     *)

(* The 1-based XXS position of word k (1-based) of block b.                *)
WordOf(b, k) == arrays.xxs[arrays.jxs[b] - 1 + k]

FileMTR == [i \in 1..arrays.nxs.ntr |-> WordOf("MTR", i)]

FileLSIG == [i \in 1..arrays.nxs.ntr |-> WordOf("LSIG", i)]

FileEnergy == [k \in 1..arrays.nxs.nes |-> WordOf("ESZ", k)]

(* The sub-record [E_start, n, xs_1..xs_n] at 1-based offset L of SIG, as  *)
(* the entry the map is to hold for mt.                                    *)
SubRecordEntry(mt, L) ==
    LET E_start == WordOf("SIG", L)
        n == WordOf("SIG", L + 1)
    IN  [mt |-> mt,
         energy |-> [k \in 1..n |-> FileEnergy[E_start - 1 + k]],
         xs_val |-> [k \in 1..n |-> WordOf("SIG", L + 1 + k)]]

(* The map SIG::process yields when its workers take the lock in the order *)
(* of the reactions.                                                       *)
InOrderSig ==
    [mt \in Range(FileMTR) |->
        SubRecordEntry(mt, FileLSIG[SetMax({ i \in DOMAIN FileMTR : FileMTR[i] = mt })])]

(* C7: the map SIG::process yields is the same for every order in which    *)
(* its workers take the lock: it is the map of the run in reaction order,  *)
(* with one entry for each MT of MTR.                                      *)
C7_SameMapEveryInterleaving ==
    blocks["SIG"].tag = "some" =>
        /\ DOMAIN blocks["SIG"].v = Range(FileMTR)
        /\ blocks["SIG"].v = InOrderSig

LastInserter(mt) ==
    inserted[SetMax({ k \in DOMAIN inserted : FileMTR[inserted[k]] = mt })]

C8_SubtractOnce == \A r \in reads : r.idx = Abs(r.loc) - 1


-----------------------------------------------------------------------------
(* block_range_to_slice on its own: every start and length around the end  *)
(* of an XXS array of up to MaxXxs words.                                  *)

NoArrays(words) ==
    [nxs |-> [nes |-> 0, ntr |-> 0, nr |-> 0, npcr |-> 0],
     jxs |-> [b \in BlockNames |-> 0],
     xxs |-> words]

ResolverIdle ==
    /\ pc = "idle"
    /\ cur = 1
    /\ data = NoneR
    /\ blocks = [b \in BlockNames |-> Unparsed]
    /\ pulled = {}
    /\ started = <<>>
    /\ finished = <<>>
    /\ pending = {}
    /\ xs = EmptyMap
    /\ inserted = <<>>
    /\ reads = {}

InitSlice ==
    /\ ResolverIdle
    /\ arrays \in { NoArrays([k \in 1..n |-> 100 + k]) : n \in 0..MaxXxs }
    /\ sl \in [tag : {"call"}, block_start : 0..(MaxXxs + 2),
               block_length : 0..(MaxXxs + 2)]
    /\ cv = Idle
    /\ tb = Idle
    /\ ad = Idle
    /\ dg = Idle

(* block_range_to_slice(block_start, block_length, arrays)                 *)
CallBlockRangeToSlice ==
    /\ sl.tag = "call"
    /\ sl' = [tag |-> "returned", block_start |-> sl.block_start,
              block_length |-> sl.block_length,
              out |-> BlockRangeToSlice(sl.block_start, sl.block_length, arrays.xxs)]
    /\ UNCHANGED <<resolverVars, cv, tb, ad, dg>>

NextSlice == CallBlockRangeToSlice

SpecSlice == InitSlice /\ [][NextSlice]_vars

(* xxs[lo .. hi) as a returned slice                                       *)
IsSliceOf(out, lo, hi) ==
    /\ out.tag = "slice"
    /\ out.lo = lo /\ out.hi = hi
    /\ out.words = [k \in 1..(hi - lo) |-> arrays.xxs[lo + k]]

(* C9 as claimed: an end inside XXS gives exactly xxs[start..start+length],*)
(* an end of |XXS|+1 gives xxs[start..|XXS|], a larger end gives a panic.  *)
C9_AsClaimed ==
    sl.tag = "returned" =>
        LET n == Len(arrays.xxs)
            end == sl.block_start + sl.block_length
        IN  /\ end <= n => IsSliceOf(sl.out, sl.block_start, end)
            /\ end = n + 1 => IsSliceOf(sl.out, sl.block_start, n)
            /\ end > n + 1 => sl.out.tag = "panic"
            /\ sl.out.tag = "slice" => sl.out.hi <= n

(* C9: an end inside XXS gives exactly xxs[start..start+length]; an end of *)
(* |XXS|+1 gives xxs[start..|XXS|] when length >= 1 and a panic when       *)
(* length = 0 (the start is then past the end); a larger end gives a       *)
(* panic; a returned slice never extends past the end of XXS.              *)
C9_Slice ==
    sl.tag = "returned" =>
        LET n == Len(arrays.xxs)
            end == sl.block_start + sl.block_length
        IN  /\ end <= n => IsSliceOf(sl.out, sl.block_start, end)
            /\ end = n + 1 /\ sl.block_length >= 1 =>
                  IsSliceOf(sl.out, sl.block_start, n)
            /\ end = n + 1 /\ sl.block_length = 0 => sl.out.tag = "panic"
            /\ end > n + 1 => sl.out.tag = "panic"
            /\ sl.out.tag = "slice" => sl.out.hi <= n /\ sl.out.lo <= sl.out.hi

(* A block ending one word past a non-empty XXS, returned one word short.  *)
C9_Witness ==
    /\ sl.tag = "returned"
    /\ sl.block_start + sl.block_length = Len(arrays.xxs) + 1
    /\ sl.block_length >= 2
    /\ sl.out.tag = "slice"
    /\ Len(sl.out.words) = sl.block_length - 1


-----------------------------------------------------------------------------
(* utils/binary_format.rs and header/header.rs: the ACE -> PACE writer and *)
(* the views of a PACE file.                                               *)
(*                                                                         *)
(* A numeric token of the ACE text is [form, v]: form "int" for a token    *)
(* str::parse::<i64> accepts, "real" for one only str::parse::<f64>        *)
(* accepts, "bad" for one neither accepts; v is its numeric value.  An     *)
(* 8-byte word of the PACE file is [enc, v]: the bytes of the i64 v or of  *)
(* the f64 v.                                                              *)


ParseI64(token) == IF token.form = "int" THEN Some(token.v) ELSE Err

ParseF64(token) == IF token.form \in {"int", "real"} THEN Some(token.v) ELSE Err

(* The writer parsing f64 first: every numeric token becomes f64 bytes.    *)
TokenWordFloatFirst(token) ==
    IF ParseF64(token).tag = "some" THEN Some([enc |-> "f64", v |-> ParseF64(token).v])
    ELSE Err

(* The writer's typing of a token (binary_format.rs:196-204, 216-224):     *)
(* integer parse first, then f64 parse.                                    *)
TokenWord(token) ==
    IF ParseI64(token).tag = "some" THEN Some([enc |-> "i64", v |-> ParseI64(token).v])
    ELSE IF ParseF64(token).tag = "some"
    THEN Some([enc |-> "f64", v |-> ParseF64(token).v])
    ELSE Err

(* A word read as f64 (the xxs_array view): the f64 that was written, 0.0  *)
(* for the all-zero bytes of the i64 0, and otherwise the f64 whose bit    *)
(* pattern is the integer, which is not the integer's value.               *)
AsF64(word) ==
    IF word.enc = "f64" \/ word.v = 0 THEN [kind |-> "value", v |-> word.v]
    ELSE [kind |-> "f64_from_bits", v |-> word.v]

(* A word read as an integer (to_bits, or the usize views of NXS and JXS): *)
(* the i64 that was written, 0 for the bytes of 0.0, and otherwise the bit *)
(* pattern of the f64.                                                     *)
AsInteger(word) ==
    IF word.enc = "i64" \/ word.v = 0 THEN [kind |-> "value", v |-> word.v]
    ELSE [kind |-> "bits_of_f64", v |-> word.v]

(* Strings are sequences of characters.                                    *)
Spaces(n) == [k \in 1..n |-> " "]

FieldWidth == 16

RECURSIVE TrimAsciiEnd(_)
TrimAsciiEnd(str) ==
    IF str # <<>> /\ str[Len(str)] = " " THEN TrimAsciiEnd(SubSeq(str, 1, Len(str) - 1))
    ELSE str

(* Header::from_ACE on the header lines of a text: h.v2 tells whether      *)
(* line 1 contains "2.0.", h.first is the tokens of line 1 and h.legacy    *)
(* the tokens of the legacy header line.                                   *)
HeaderFromACE(h) ==
    LET szaid == IF h.v2 /\ Len(h.first) >= 2 THEN Some(h.first[2]) ELSE NoneR
    IN  IF Len(h.legacy) < 3 THEN Panic
        ELSE IF ParseF64(h.legacy[2]).tag # "some" \/ ParseF64(h.legacy[3]).tag # "some"
        THEN Err
        ELSE Some([zaid |-> h.legacy[1], szaid |-> szaid,
                   atomic_mass_fraction |-> ParseF64(h.legacy[2]).v,
                   kT |-> ParseF64(h.legacy[3]).v])

(* The header section as convert_ACE_to_PACE writes it                     *)
(* (binary_format.rs:165-184); 16 - len underflows for a longer string.    *)
HeaderBytes(header) ==
    LET sz == IF header.szaid.tag = "some" THEN header.szaid.v ELSE <<>>
    IN  IF Len(sz) > FieldWidth \/ Len(header.zaid) > FieldWidth THEN Panic
        ELSE Some([szaid |-> sz \o Spaces(FieldWidth - Len(sz)),
                   zaid |-> header.zaid \o Spaces(FieldWidth - Len(header.zaid)),
                   atomic_mass_fraction |-> header.atomic_mass_fraction,
                   kT |-> header.kT])

(* Header::from_PACE on the header section                                 *)
HeaderFromPACE(bytes) ==
    [zaid |-> TrimAsciiEnd(bytes.zaid),
     szaid |-> IF TrimAsciiEnd(bytes.szaid) = <<>> THEN NoneR
               ELSE Some(TrimAsciiEnd(bytes.szaid)),
     atomic_mass_fraction |-> bytes.atomic_mass_fraction,
     kT |-> bytes.kT]

(* The views of PaceMmap, in 8-byte words after the 48-byte header: IZAW   *)
(* is bytes 48..304, NXS 304..432, JXS 432..688, XXS the rest.  A view     *)
(* past the end of the file panics.                                        *)
IzawWords == 32
NxsWords == 16
JxsWords == 32

NxsArray(words) ==
    IF Len(words) < IzawWords + NxsWords THEN Panic
    ELSE Some([j \in 1..NxsWords |-> AsInteger(words[IzawWords + j])])

JxsArray(words) ==
    IF Len(words) < IzawWords + NxsWords + JxsWords THEN Panic
    ELSE Some([j \in 1..JxsWords |-> AsInteger(words[IzawWords + NxsWords + j])])

XxsArray(words) ==
    IF Len(words) < IzawWords + NxsWords + JxsWords THEN Panic
    ELSE Some(SubSeq(words, IzawWords + NxsWords + JxsWords + 1, Len(words)))


-----------------------------------------------------------------------------
(* The ACE texts the writer is run on.                                     *)

IntTok(v) == [form |-> "int", v |-> v]
RealTok(v) == [form |-> "real", v |-> v]
BadTok == [form |-> "bad", v |-> 0]

Zaid == <<"9", "2", ".", "8", "0", "c">>
Szaid == <<"9", "2", ".", "7", "1", "0", "n", "c">>

HeaderKinds == {"legacy", "v2", "v2_no_szaid", "bad_awr", "long_szaid"}

HeaderText(kind) ==
    [v2 |-> kind \in {"v2", "v2_no_szaid", "long_szaid"},
     first |-> CASE kind = "v2" -> << <<"2", ".", "0", ".", "0">>, Szaid >>
                 [] kind = "v2_no_szaid" -> << <<"2", ".", "0", ".", "0">> >>
                 [] kind = "long_szaid" ->
                       << <<"2", ".", "0", ".", "0">>, Szaid \o Szaid \o <<"x">> >>
                 [] OTHER -> <<Zaid>>,
     legacy |-> <<Zaid, IF kind = "bad_awr" THEN BadTok ELSE RealTok(233), RealTok(2)>>]

(* The ten lines after the header: four IZAW lines of four (za, awr)       *)
(* pairs, two NXS lines and four JXS lines of eight integers.              *)
IndexKinds == {"full", "short_izaw", "bad_nxs", "real_nxs"}

IndexLine(kind, l) ==
    LET tok(j) ==
            IF l <= 4 THEN (IF j % 2 = 1 THEN IntTok(0) ELSE RealTok(0))
            ELSE IF l <= 6
            THEN (IF l = 6 /\ j = 3 /\ kind = "bad_nxs" THEN BadTok
                  ELSE IF l = 6 /\ j = 3 /\ kind = "real_nxs" THEN RealTok(211)
                  ELSE IntTok(200 + 8 * (l - 5) + j))
            ELSE IntTok(300 + 8 * (l - 7) + j)
        n == IF l = 1 /\ kind = "short_izaw" THEN 6 ELSE 8
    IN  [j \in 1..n |-> tok(j)]

IndexLines(kind) == [l \in 1..10 |-> IndexLine(kind, l)]

(* The XXS lines: line k holds one token, an integer position for odd k    *)
(* and a real position for even k, written in the form of its position;    *)
(* the token of line odd (if any) is written in another form.              *)
OddForms == {"int", "zero_int", "real", "zero_real", "bad"}

XxsToken(k, odd, form) ==
    LET pos == IF k % 2 = 1 THEN "int" ELSE "real"
        tok == IF k # odd THEN (IF pos = "int" THEN IntTok(10 + k) ELSE RealTok(10 + k))
               ELSE CASE form = "int" -> IntTok(10 + k)
                      [] form = "zero_int" -> IntTok(0)
                      [] form = "real" -> RealTok(10 + k)
                      [] form = "zero_real" -> RealTok(0)
                      [] form = "bad" -> BadTok
    IN  [form |-> tok.form, v |-> tok.v, pos |-> pos]

XxsLines(n, odd, form) == [k \in 1..n |-> <<XxsToken(k, odd, form)>>]

AceText(hk, ik, n, odd, form) ==
    [header |-> HeaderText(hk), index |-> IndexLines(ik), lines |-> XxsLines(n, odd, form)]

AceTexts ==
    { AceText(hk, "full", 3, 0, "int") : hk \in HeaderKinds }
    \cup { AceText("v2", ik, 3, 0, "int") : ik \in IndexKinds }
    \cup { AceText("v2", "full", n, odd, form) :
              n \in 0..MaxLines, odd \in 0..MaxLines, form \in OddForms }

(* The tokens of the text, in text order.                                  *)
IndexTokens(text) == Cat(text.index)
XxsTokens(text) == Cat(text.lines)


-----------------------------------------------------------------------------
(* convert_ACE_to_PACE                                                     *)

(* lines.par_chunks(BATCH_SIZE).enumerate(): chunk index (from 0) is the   *)
(* lines index*BATCH_SIZE+1 .. (index+1)*BATCH_SIZE.                       *)
NumChunks(lines) == (Len(lines) + BatchLines - 1) \div BatchLines

Chunk(lines, index) ==
    SubSeq(lines, index * BatchLines + 1,
           IF (index + 1) * BatchLines < Len(lines) THEN (index + 1) * BatchLines
           ELSE Len(lines))

(* The closure run on one chunk (binary_format.rs:213-227): the words of   *)
(* its tokens, or a panic at a token that is neither i64 nor f64.          *)
ChunkBuffer(batch) ==
    LET tokens == Cat(batch)
    IN  IF \E j \in DOMAIN tokens : TokenWord(tokens[j]).tag # "some" THEN Panic
        ELSE Some([j \in DOMAIN tokens |-> TokenWord(tokens[j]).v])

(* The batches left in the order the chunks completed.                     *)
KeepCompletionOrder(byte_batches) == byte_batches

(* byte_batches.sort_by_key(|&(index, _)| index) (binary_format.rs:232)    *)
SortByIndex(byte_batches) ==
    SortSeq(byte_batches, LAMBDA a, b : a.index < b.index)

(* final_buffer (binary_format.rs:234-237)                                 *)
FinalBuffer(byte_batches) ==
    Cat([k \in DOMAIN byte_batches |-> SortByIndex(byte_batches)[k].buffer])

(* The words written for the ten index lines before the first token that   *)
(* is neither i64 nor f64 (binary_format.rs:189-206).                      *)
IndexWritten(tokens) ==
    LET bad == { j \in DOMAIN tokens : TokenWord(tokens[j]).tag # "some" }
        last == IF bad = {} THEN Len(tokens)
                ELSE (CHOOSE j \in bad : \A i \in bad : j <= i) - 1
    IN  [ok |-> bad = {}, words |-> [j \in 1..last |-> TokenWord(tokens[j]).v]]

NoFile == [exists |-> FALSE, head |-> NoneR, words |-> <<>>]

InitConvert ==
    /\ ResolverIdle
    /\ arrays = NoArrays(<<>>)
    /\ sl = Idle
    /\ tb = Idle
    /\ ad = Idle
    /\ dg = Idle
    /\ cv \in { [pcv |-> "start", text |-> t, header |-> NoneR, file |-> NoFile,
                 todo |-> {}, done |-> <<>>] : t \in AceTexts }

(* Header::from_ACE (binary_format.rs:145)                                 *)
ReadHeader ==
    /\ cv.pcv = "start"
    /\ cv' = [cv EXCEPT !.header = HeaderFromACE(cv.text.header),
                        !.pcv = IF HeaderFromACE(cv.text.header).tag = "some"
                                THEN "create" ELSE "failed"]
    /\ UNCHANGED <<resolverVars, sl, tb, ad, dg>>

(* File::create(output_path) (binary_format.rs:161)                        *)
CreateOutput ==
    /\ cv.pcv = "create"
    /\ cv' = [cv EXCEPT !.file = [exists |-> TRUE, head |-> NoneR, words |-> <<>>],
                        !.pcv = "header"]
    /\ UNCHANGED <<resolverVars, sl, tb, ad, dg>>

(* The header section is written (binary_format.rs:165-184).               *)
WriteHeader ==
    /\ cv.pcv = "header"
    /\ cv' = IF HeaderBytes(cv.header.v).tag = "some"
             THEN [cv EXCEPT !.file.head = HeaderBytes(cv.header.v), !.pcv = "index"]
             ELSE [cv EXCEPT !.pcv = "failed"]
    /\ UNCHANGED <<resolverVars, sl, tb, ad, dg>>

(* The ten IZAW/NXS/JXS lines are written token by token; a token that is  *)
(* neither i64 nor f64 returns Err (binary_format.rs:188-206).  Then the   *)
(* remaining lines are read and handed out in chunks.                      *)
WriteIndex ==
    /\ cv.pcv = "index"
    /\ LET w == IndexWritten(IndexTokens(cv.text))
       IN  cv' = [cv EXCEPT !.file.words = cv.file.words \o w.words,
                            !.pcv = IF w.ok THEN "xxs" ELSE "failed",
                            !.todo = IF w.ok THEN 0..(NumChunks(cv.text.lines) - 1)
                                     ELSE {}]
    /\ UNCHANGED <<resolverVars, sl, tb, ad, dg>>

(* One chunk is converted by a worker; its (index, buffer) joins the       *)
(* collected batches (binary_format.rs:211-229).                           *)
ConvertChunk(index) ==
    /\ cv.pcv = "xxs"
    /\ index \in cv.todo
    /\ LET buffer == ChunkBuffer(Chunk(cv.text.lines, index))
       IN  cv' = IF buffer.tag = "some"
                 THEN [cv EXCEPT !.todo = cv.todo \ {index},
                                 !.done = Append(cv.done, [index |-> index,
                                                           buffer |-> buffer.v])]
                 ELSE [cv EXCEPT !.pcv = "failed"]
    /\ UNCHANGED <<resolverVars, sl, tb, ad, dg>>

(* The batches are sorted by index, concatenated and appended to the file  *)
(* (binary_format.rs:232-241); Ok(output_path) is returned.                *)
WriteXxs ==
    /\ cv.pcv = "xxs"
    /\ cv.todo = {}
    /\ cv' = [cv EXCEPT !.file.words = cv.file.words \o FinalBuffer(cv.done),
                        !.pcv = "ok"]
    /\ UNCHANGED <<resolverVars, sl, tb, ad, dg>>

NextConvert ==
    \/ ReadHeader
    \/ CreateOutput
    \/ WriteHeader
    \/ WriteIndex
    \/ \E index \in 0..MaxLines : ConvertChunk(index)
    \/ WriteXxs

SpecConvert == InitConvert /\ [][NextConvert]_vars


-----------------------------------------------------------------------------
(* Properties of the writer                                                *)

Value(v) == [kind |-> "value", v |-> v]

(* A word read with the type the grammar prescribes at its position.       *)
ReadAt(pos, word) == IF pos = "int" THEN AsInteger(word) ELSE AsF64(word)

TextNxs(text) == text.index[5] \o text.index[6]

TextJxs(text) == text.index[7] \o text.index[8] \o text.index[9] \o text.index[10]

(* The ten index lines hold eight tokens each: 32 IZAW, 16 NXS, 32 JXS.    *)
IndexInLayout(text) == \A l \in DOMAIN text.index : Len(text.index[l]) = 8

(* C4 as claimed: after a conversion that returned Ok, the header, NXS and *)
(* JXS read back from the file are those of the text, and every XXS word   *)
(* read with the type of its position has the value of its token.          *)
C4_AsClaimed ==
    cv.pcv = "ok" =>
        /\ HeaderFromPACE(cv.file.head.v) = cv.header.v
        /\ NxsArray(cv.file.words) =
              Some([j \in 1..NxsWords |-> Value(TextNxs(cv.text)[j].v)])
        /\ JxsArray(cv.file.words) =
              Some([j \in 1..JxsWords |-> Value(TextJxs(cv.text)[j].v)])
        /\ XxsArray(cv.file.words).tag = "some"
        /\ Len(XxsArray(cv.file.words).v) = Len(XxsTokens(cv.text))
        /\ \A k \in DOMAIN XxsTokens(cv.text) :
              ReadAt(XxsTokens(cv.text)[k].pos, XxsArray(cv.file.words).v[k])
                 = Value(XxsTokens(cv.text)[k].v)

(* C4: after a conversion that returned Ok the header read back is the     *)
(* text's; when the ten index lines hold their 32 + 16 + 32 tokens, every  *)
(* NXS and JXS entry written as an integer reads back equal, and an XXS    *)
(* word read with the type of its position has the value of its token when *)
(* the token is written in the form of that position or is the integer 0,  *)
(* and not when a non-zero token is written in the other form.             *)
C4_RoundTrip ==
    cv.pcv = "ok" =>
        /\ HeaderFromPACE(cv.file.head.v) = cv.header.v
        /\ IndexInLayout(cv.text) =>
              /\ NxsArray(cv.file.words).tag = "some"
              /\ JxsArray(cv.file.words).tag = "some"
              /\ \A j \in 1..NxsWords :
                    TextNxs(cv.text)[j].form = "int" =>
                        NxsArray(cv.file.words).v[j] = Value(TextNxs(cv.text)[j].v)
              /\ \A j \in 1..JxsWords :
                    TextJxs(cv.text)[j].form = "int" =>
                        JxsArray(cv.file.words).v[j] = Value(TextJxs(cv.text)[j].v)
              /\ Len(XxsArray(cv.file.words).v) = Len(XxsTokens(cv.text))
              /\ \A k \in DOMAIN XxsTokens(cv.text) :
                    LET token == XxsTokens(cv.text)[k]
                        read == ReadAt(token.pos, XxsArray(cv.file.words).v[k])
                    IN  /\ token.form = token.pos \/ (token.form = "int" /\ token.v = 0)
                              => read = Value(token.v)
                        /\ token.form # token.pos /\ token.v # 0
                              => read # Value(token.v)

(* A converted text with a version-2 header and, among integer and real    *)
(* tokens in their own positions, an integer 0 in a real position.         *)
C4_Witness ==
    /\ cv.pcv = "ok"
    /\ IndexInLayout(cv.text)
    /\ cv.header.v.szaid.tag = "some"
    /\ \E k \in DOMAIN XxsTokens(cv.text) :
          XxsTokens(cv.text)[k].pos = "real" /\ XxsTokens(cv.text)[k].form = "int"
    /\ \E k \in DOMAIN XxsTokens(cv.text) :
          XxsTokens(cv.text)[k].pos = "int" /\ XxsTokens(cv.text)[k].form = "int"
             /\ XxsTokens(cv.text)[k].v # 0
    /\ \E k \in DOMAIN XxsTokens(cv.text) :
          XxsTokens(cv.text)[k].pos = "real" /\ XxsTokens(cv.text)[k].form = "real"

(* The words of a token sequence, in its order.                            *)
WordsOf(tokens) == [j \in DOMAIN tokens |-> TokenWord(tokens[j]).v]

(* C5: whatever the order in which the chunks completed, the file of a     *)
(* conversion that returned Ok holds the header, then the IZAW/NXS/JXS     *)
(* words, then the XXS words in the order of their tokens in the text; no  *)
(* XXS word is in the file before.                                         *)
C5_TokenOrder ==
    /\ cv.pcv = "ok" =>
          /\ cv.file.head.tag = "some"
          /\ cv.file.words = WordsOf(IndexTokens(cv.text)) \o WordsOf(XxsTokens(cv.text))
    /\ cv.pcv \in {"xxs", "failed"} /\ cv.file.words # <<>> =>
          /\ cv.file.head.tag = "some"
          /\ Len(cv.file.words) <= Len(IndexTokens(cv.text))

(* Three chunks whose batches were collected in another order than their   *)
(* indices.                                                                *)
C5_Witness ==
    /\ cv.pcv = "ok"
    /\ Len(cv.done) >= 3
    /\ cv.done[1].index > cv.done[2].index
    /\ \A k \in DOMAIN cv.done : cv.done[k].buffer # <<>>

(* C6: when the conversion fails after the header was read, no file is     *)
(* left at the output path.                                                *)
C6_NoPartialFile ==
    cv.pcv = "failed" /\ cv.header.tag = "some" => ~cv.file.exists


-----------------------------------------------------------------------------
(* Properties of the slices the pulls return, stated on the words of the   *)
(* file.                                                                   *)

(* The words of the k sub-records [E_start, n, xs_1..xs_n] of SIG stored   *)
(* from the 0-based offset pos of the block on.                            *)
RECURSIVE SubRecordsLength(_, _)
SubRecordsLength(k, pos) ==
    IF k = 0 THEN 0
    ELSE (2 + WordOf("SIG", pos + 2))
            + SubRecordsLength(k - 1, pos + 2 + WordOf("SIG", pos + 2))

(* C11: the slice SIG::pull_from_xxs_array returns starts at the JXS[SIG]  *)
(* position and has exactly the sum of (2 + n_xs) words of the ntr         *)
(* sub-records: it holds no word beyond the last sub-record.               *)
C11_SigSliceLength ==
    pc \in {"process", "sig"} /\ ParseOrder[cur] = "SIG" =>
        /\ data.lo = arrays.jxs["SIG"] - 1
        /\ Len(data.words) = SubRecordsLength(arrays.nxs.ntr, 0)


-----------------------------------------------------------------------------
(* Properties of LAND and AND                                              *)

(* The MTs of TYR that release neutrons, none when TYR is absent.          *)
ReleasingMts ==
    IF blocks["TYR"].tag = "some"
    THEN MtValuesWithNeutronRelease(blocks["TYR"].v)
    ELSE {}

(* C12: after a successful parse the keys of the AND map are the MTs whose *)
(* TYR entry releases neutrons and whose LAND entry is not -1, together    *)
(* with elastic scattering; an MT whose TYR value is 0 is not among them.  *)
C12_AndKeys ==
    blocks["AND"].tag = "some" =>
        /\ DOMAIN blocks["AND"].v =
              { m \in ReleasingMts : /\ m \in DOMAIN blocks["LAND"].v
                                     /\ blocks["LAND"].v[m] # -1 }
              \cup {ElasticScattering}
        /\ \A m \in DOMAIN blocks["AND"].v :
              ~(/\ blocks["TYR"].tag = "some"
                /\ m \in DOMAIN blocks["TYR"].v
                /\ blocks["TYR"].v[m].value = 0)

FileLAND == [i \in 1..(arrays.nxs.nr + 1) |-> WordOf("LAND", i)]

(* The LAND offsets that address a reaction record of AND.                 *)
LandOffsets == { Abs(FileLAND[i]) : i \in { k \in DOMAIN FileLAND : FileLAND[k] \notin {-1, 0} } }

(* The per-energy locators of the reaction record at the largest LAND      *)
(* offset.                                                                 *)
LastLocators ==
    LET off == SetMax(LandOffsets)
        n_E == WordOf("AND", off)
    IN  [j \in 1..n_E |-> WordOf("AND", off + n_E + j)]

LargestLocator ==
    CHOOSE l \in Range(LastLocators) : \A k \in Range(LastLocators) : Abs(k) <= Abs(l)

(* The 1-based position in AND of the last word of the record a locator    *)
(* addresses: [scheme, n, cos, pdf, cdf] at |l| for a negative locator,    *)
(* 33 values at l for a positive one.                                      *)
RecordEnd(l) ==
    IF l < 0 THEN Abs(l) + 1 + 3 * WordOf("AND", Abs(l) + 1) ELSE l + 32

(* C13: the slice AND::pull_from_xxs_array returns ends exactly after the  *)
(* last word of the record addressed by the largest-magnitude per-energy   *)
(* locator of the reaction with the largest LAND offset, with no extra     *)
(* word.                                                                   *)
C13_AndSliceEnd ==
    (/\ pc = "process" /\ ParseOrder[cur] = "AND"
     /\ LandOffsets # {}
     /\ LargestLocator # 0) =>
        /\ data.lo = arrays.jxs["AND"] - 1
        /\ Len(data.words) = RecordEnd(LargestLocator)

(* C14: a file whose LAND holds a negative entry other than -1 does not    *)
(* get past the parse of LAND, and no negative LAND entry is resolved as   *)
(* an offset into AND.                                                     *)
C14_NegativeLandAborts ==
    /\ "LAND" \in Range(finished) =>
          \A i \in DOMAIN FileLAND : FileLAND[i] >= -1
    /\ \A r \in reads : r.kind = "LAND" => r.loc >= -1


-----------------------------------------------------------------------------
(* Properties of NU and DNU                                                *)

(* Words lo+1 .. hi (1-based) of block b.                                  *)
FileWords(b, lo, hi) == [j \in 1..(hi - lo) |-> WordOf(b, lo + j)]

(* The number of words of the interpolation table at word pos of block b:  *)
(* [0, np, x, y] or [nr, bounds, schemes, np, x, y].                       *)
TableLen(b, pos) ==
    LET nr == WordOf(b, pos)
    IN  IF nr = 0 THEN 2 + 2 * WordOf(b, pos + 1)
        ELSE 2 + 2 * nr + 2 * WordOf(b, pos + 1 + 2 * nr)

(* The number of words of the NU formulation whose tag is word pos: tag,   *)
(* nc and nc coefficients, or tag and an interpolation table.              *)
FormulationLen(pos) ==
    IF WordOf("NU", pos) = 1 THEN 2 + WordOf("NU", pos + 1)
    ELSE 1 + TableLen("NU", pos + 1)

NuFirstWord == WordOf("NU", 1)

(* C15: with first word k < 0, prompt is decoded from the |k| words after  *)
(* k and total from the formulation after those, both present; with k > 0  *)
(* the one formulation is prompt when JXS[DNU] is non-zero and total       *)
(* otherwise.  The slice pulled for NU has exactly the 1 + |k| words, plus *)
(* the words of the total formulation when k < 0.                          *)
C15_NuDecode ==
    /\ pc = "process" /\ ParseOrder[cur] = "NU" =>
          /\ data.lo = arrays.jxs["NU"] - 1
          /\ Len(data.words) =
                1 + Abs(NuFirstWord)
                  + (IF NuFirstWord < 0 THEN FormulationLen(2 + Abs(NuFirstWord)) ELSE 0)
    /\ blocks["NU"].tag = "some" =>
          LET k == NuFirstWord
              first == NuFormulation(FileWords("NU", 1, 1 + Abs(k)))
              nu == blocks["NU"].v
          IN  /\ k # 0
              /\ first.tag = "some"
              /\ k < 0 =>
                    /\ nu.prompt = first
                    /\ nu.total = NuFormulation(FileWords("NU", 1 + Abs(k),
                                      1 + Abs(k) + FormulationLen(2 + Abs(k))))
                    /\ nu.total.tag = "some"
              /\ k > 0 /\ arrays.jxs["DNU"] # 0 =>
                    nu.prompt = first /\ nu.total = NoneR
              /\ k > 0 /\ arrays.jxs["DNU"] = 0 =>
                    nu.prompt = NoneR /\ nu.total = first

(* A successful parse of a file whose NU holds a polynomial prompt and a   *)
(* tabulated total formulation.                                            *)
C15_Witness ==
    /\ pc = "done"
    /\ blocks["NU"].tag = "some"
    /\ NuFirstWord < 0
    /\ blocks["NU"].v.prompt.tag = "some"
    /\ blocks["NU"].v.prompt.v.tag = "Polynomial"
    /\ blocks["NU"].v.total.tag = "some"
    /\ blocks["NU"].v.total.v.tag = "Tabulated"

(* Every formulation of a decoded NU block carries the tag 1 or 2.         *)
NuTagsKnown ==
    blocks["NU"].tag = "some" =>
        /\ WordOf("NU", 2) \in {1, 2}
        /\ NuFirstWord < 0 => WordOf("NU", 2 + Abs(NuFirstWord)) \in {1, 2}

(* C16: no NU value is produced from a block with a formulation tag other  *)
(* than 1 or 2, and no DNU value from a block whose leading word is not    *)
(* the marker 1: such a block makes the parse fail.                        *)
C16_UnknownTagAborts ==
    /\ NuTagsKnown
    /\ blocks["DNU"].tag = "some" => WordOf("DNU", 1) = 1


-----------------------------------------------------------------------------
(* InterpolationTable::interpolate (interpolation_table.rs:142-179).  A    *)
(* table is a sequence of regions [scheme, pts], a point a pair <<x, y>>.  *)
(* An f64 result is kept as the expression that yields it: a stored y      *)
(* returned as it is, or a scheme applied to the bin and x_val.            *)

MaxRegions == 2
MaxNp == 3

Exact(y) == [expr |-> "exact", y |-> y]

(* find with the upper end of a region left unchecked.                     *)
FindRegionOpenEnded(table, x_val) ==
    LET hit == { i \in DOMAIN table : table[i].pts[1][1] <= x_val }
    IN  IF \E i \in DOMAIN table : table[i].pts = <<>> THEN Panic
        ELSE IF hit = {} THEN NoneR
        ELSE Some(CHOOSE i \in hit : \A j \in hit : i <= j)

(* self.iter().find(..) (interpolation_table.rs:148-150): the first region *)
(* whose first and last x enclose x_val; indexing an empty region panics.  *)
FindRegion(table, x_val) ==
    LET hit == { i \in DOMAIN table :
                   /\ table[i].pts # <<>>
                   /\ table[i].pts[1][1] <= x_val
                   /\ x_val <= Last(table[i].pts)[1] }
        empty == { i \in DOMAIN table : table[i].pts = <<>> }
        first == IF hit = {} THEN Len(table) + 1
                 ELSE CHOOSE i \in hit : \A j \in hit : i <= j
    IN  IF \E i \in empty : i < first THEN Panic
        ELSE IF hit = {} THEN NoneR
        ELSE Some(first)

(* binary_search_by that never reports a match.                            *)
BinarySearchNoMatch(pts, x_val) ==
    [tag |-> "Err", idx |-> Cardinality({ i \in DOMAIN pts : pts[i][1] < x_val })]

(* binary_search_by on points of strictly increasing x                     *)
(* (interpolation_table.rs:153): Ok(index of the point at x_val), else     *)
(* Err(index where x_val would be inserted); 0-based.                      *)
BinarySearch(pts, x_val) ==
    IF \E i \in DOMAIN pts : pts[i][1] = x_val
    THEN [tag |-> "Ok", idx |-> (CHOOSE i \in DOMAIN pts : pts[i][1] = x_val) - 1]
    ELSE [tag |-> "Err", idx |-> Cardinality({ i \in DOMAIN pts : pts[i][1] < x_val })]

(* The match on the scheme (interpolation_table.rs:171-178)                *)
ApplyScheme(scheme, start, end, x_val) ==
    CASE scheme = "Histogram" -> Ok(Exact(start[2]))
      [] scheme \in {"LinLin", "LinLog", "LogLin", "LogLog"} ->
            Ok([expr |-> scheme, x0 |-> start[1], x1 |-> end[1],
                y0 |-> start[2], y1 |-> end[2], x |-> x_val])
      [] scheme = "Gamow" -> Panic

(* InterpolationTable::interpolate                                         *)
Interpolate(table, x_val) ==
    IF Len(table) < 1 THEN Err
    ELSE LET found == FindRegion(table, x_val)
         IN  IF found = Panic THEN Panic
             ELSE IF found = NoneR THEN Err
             ELSE LET region == table[found.v]
                      search == BinarySearch(region.pts, x_val)
                  IN  IF search.tag = "Ok" THEN Ok(Exact(At(region.pts, search.idx)[2]))
                      ELSE IF search.idx - 1 < 0 \/ ~InR(region.pts, search.idx) THEN Panic
                      ELSE ApplyScheme(region.scheme, At(region.pts, search.idx - 1),
                                       At(region.pts, search.idx), x_val)


-----------------------------------------------------------------------------
(* InterpolationTable on its own: tables built by process from raw words   *)
(* and tables given as region lists, then one call of interpolate.         *)

TableXs(np) == [i \in 1..np |-> 10 * i]

TableYs(np) == [i \in 1..np |-> 100 + i]

NonDecreasing(b) == \A k \in DOMAIN b : k > 1 => b[k - 1] <= b[k]

(* [nr, bounds, schemes, np, x, y] with bounds inside the np >= 1 points,  *)
(* and [0, np, x, y]; scheme 7 is not a scheme.                            *)
RawTables ==
    { <<Len(b)>> \o b \o sch \o <<np>> \o TableXs(np) \o TableYs(np) :
        <<np, b, sch>> \in
            { t \in (1..MaxNp) \X SeqsUpTo(1..MaxNp, MaxRegions)
                                \X SeqsUpTo(1..7, MaxRegions) :
                /\ Len(t[2]) >= 1 /\ Len(t[3]) = Len(t[2])
                /\ NonDecreasing(t[2])
                /\ \A k \in DOMAIN t[2] : t[2][k] <= t[1] } }
    \cup { <<0, np>> \o TableXs(np) \o TableYs(np) : np \in 1..MaxNp }

(* InterpolationTable(vec![..]): no region, and two regions with a gap     *)
(* between them.                                                           *)
LiteralTables ==
    { <<>> } \cup
    { << [scheme |-> SchemeNames[s1], pts |-> << <<10, 101>>, <<20, 102>> >>],
         [scheme |-> SchemeNames[s2], pts |-> << <<30, 103>>, <<35, 104>> >>] >>
      : s1 \in 1..6, s2 \in 1..6 }

(* The x values asked for: the nodes, the middle of every bin, and one     *)
(* value on either side of the table.                                      *)
QueryXs == { 5 * j : j \in 1..(2 * MaxNp + 1) }

InitInterp ==
    /\ ResolverIdle
    /\ arrays = NoArrays(<<>>)
    /\ sl = Idle
    /\ cv = Idle
    /\ ad = Idle
    /\ dg = Idle
    /\ tb \in { [tag |-> "raw", by |-> "process", words |-> w, table |-> NoneR,
                  x_val |-> x, out |-> NoneR] : w \in RawTables, x \in QueryXs }
          \cup
              { [tag |-> "built", by |-> "literal", words |-> <<>>, table |-> Some(t),
                  x_val |-> x, out |-> NoneR] : t \in LiteralTables, x \in QueryXs }

(* InterpolationTable::process(data)                                       *)
ProcessTable ==
    /\ tb.tag = "raw"
    /\ tb' = [tb EXCEPT !.tag = "built", !.table = TableProcess(tb.words)]
    /\ UNCHANGED <<resolverVars, cv, sl, ad, dg>>

(* table.interpolate(x_val)                                                *)
CallInterpolate ==
    /\ tb.tag = "built"
    /\ tb.table.tag = "some"
    /\ tb' = [tb EXCEPT !.tag = "returned", !.out = Interpolate(tb.table.v, tb.x_val)]
    /\ UNCHANGED <<resolverVars, cv, sl, ad, dg>>

NextInterp == ProcessTable \/ CallInterpolate

SpecInterp == InitInterp /\ [][NextInterp]_vars


-----------------------------------------------------------------------------
(* Properties of interpolate                                               *)

StrictlyIncreasingX(table) ==
    \A k \in DOMAIN table : \A i \in DOMAIN table[k].pts :
        i > 1 => table[k].pts[i - 1][1] < table[k].pts[i][1]

(* C17: on a table whose regions have strictly increasing x, interpolate   *)
(* at the x of a node (x_i, y_i) of any region returns exactly y_i,        *)
(* whatever the scheme of the region, Gamow included, and also at a node   *)
(* that two consecutive regions share.                                     *)
C17_NodesExact ==
    (tb.tag = "returned" /\ StrictlyIncreasingX(tb.table.v)) =>
        \A k \in DOMAIN tb.table.v : \A i \in DOMAIN tb.table.v[k].pts :
            tb.table.v[k].pts[i][1] = tb.x_val =>
                tb.out = Ok(Exact(tb.table.v[k].pts[i][2]))

(* interpolate called at the node shared by a Gamow region and the region  *)
(* after it, in a table built by process.                                  *)
C17_Witness ==
    /\ tb.tag = "returned"
    /\ tb.by = "process"
    /\ Len(tb.table.v) = 2
    /\ tb.table.v[1].scheme = "Gamow"
    /\ Len(tb.table.v[1].pts) >= 2
    /\ Last(tb.table.v[1].pts)[1] = tb.x_val
    /\ tb.table.v[2].pts[1][1] = tb.x_val
    /\ Len(tb.table.v[2].pts) >= 2
    /\ tb.out.tag = "ok"

InSomeRegion(table, x_val) ==
    \E k \in DOMAIN table :
        /\ table[k].pts # <<>>
        /\ table[k].pts[1][1] <= x_val
        /\ x_val <= Last(table[k].pts)[1]

IsNode(table, x_val) ==
    \E k \in DOMAIN table : \E i \in DOMAIN table[k].pts : table[k].pts[i][1] = x_val

(* x_val lies strictly between two consecutive nodes of a Gamow region.    *)
InsideGamowBin(table, x_val) ==
    \E k \in DOMAIN table : \E i \in DOMAIN table[k].pts :
        /\ table[k].scheme = "Gamow"
        /\ i > 1
        /\ table[k].pts[i - 1][1] < x_val
        /\ x_val < table[k].pts[i][1]

-----------------------------------------------------------------------------
(* Properties of InterpolationTable::process, stated on the raw words      *)
(* [nr, b_1..b_nr, s_1..s_nr, np, x_1..x_np, y_1..y_np] or [0, np, x, y].  *)

RawNr == tb.words[1]

RawNp == IF RawNr = 0 THEN tb.words[2] ELSE tb.words[2 + 2 * RawNr]

(* The 1-based boundary b_k, with b_0 = 0.                                 *)
RawBound(k) == IF k = 0 THEN 0 ELSE tb.words[1 + k]

RawScheme(k) == SchemeNames[tb.words[1 + RawNr + k]]

(* The point with 1-based index i.                                         *)
RawPoint(i) ==
    LET x_first == IF RawNr = 0 THEN 2 ELSE 2 + 2 * RawNr
    IN  <<tb.words[x_first + i], tb.words[x_first + RawNp + i]>>

(* The points with 1-based indices lo .. hi.                               *)
RawPoints(lo, hi) == [i \in 1..(hi - lo + 1) |-> RawPoint(lo + i - 1)]

StrictBounds == \A k \in 1..RawNr : RawBound(k - 1) < RawBound(k)

(* process has returned a table for the raw words.                         *)
TableBuilt ==
    /\ tb.by = "process"
    /\ tb.tag \in {"built", "returned"}
    /\ tb.table.tag = "some"

OneLinLinRegion ==
    tb.table.v = << [scheme |-> "LinLin", pts |-> RawPoints(1, RawNp)] >>

(* C19 as claimed: with boundaries b_1 < ... < b_nr, region k holds        *)
(* exactly the points b_(k-1)+1 .. b_k, with b_0 = 0; with nr = 0 the      *)
(* table is one LinLin region holding all np points.                       *)
C19_Partition ==
    TableBuilt =>
        IF RawNr = 0 THEN OneLinLinRegion
        ELSE StrictBounds =>
                /\ Len(tb.table.v) = RawNr
                /\ \A k \in 1..RawNr :
                      tb.table.v[k] =
                          [scheme |-> RawScheme(k),
                           pts |-> RawPoints(RawBound(k - 1) + 1, RawBound(k))]

(* C19: with boundaries b_1 < ... < b_nr <= np, region 1 holds exactly the *)
(* points 1 .. b_1 and region k >= 2 the points b_(k-1) .. b_k, so that    *)
(* consecutive regions overlap in the point b_(k-1); with nr = 0 the table *)
(* is one LinLin region holding all np points.                             *)
C19_Regions ==
    TableBuilt =>
        IF RawNr = 0 THEN OneLinLinRegion
        ELSE (StrictBounds /\ RawBound(RawNr) <= RawNp) =>
                /\ Len(tb.table.v) = RawNr
                /\ \A k \in 1..RawNr :
                      tb.table.v[k] =
                          [scheme |-> RawScheme(k),
                           pts |-> RawPoints(IF k = 1 THEN 1 ELSE RawBound(k - 1),
                                             RawBound(k))]

(* A table built from two regions with boundaries 2 < 3 = np.              *)
C19_Witness ==
    /\ TableBuilt
    /\ RawNr = 2
    /\ RawBound(1) = 2 /\ RawBound(2) = 3 /\ RawNp = 3
    /\ Len(tb.table.v[1].pts) = 2
    /\ Len(tb.table.v[2].pts) = 2

C21_GamowUnsupported ==
    (tb.tag = "returned" /\ InsideGamowBin(tb.table.v, tb.x_val)) =>
        tb.out = Err

-----------------------------------------------------------------------------
(* Sampling of angular distributions (angular_distribution_types.rs,       *)
(* energy_angle_distribution.rs).  A CDF value or random number a / 32 is  *)
(* kept as the integer a, a cosine that is a whole number as that number,  *)
(* an energy as an integer in the same order.  A sampled cosine is kept as *)
(* the expression that yields it.                                          *)

(* UnitF64(1.0)                                                            *)
Unit == CAPACITY - 1

(* The longest energy grid composed from constructed members.              *)
MaxGrid == 2

(* InterpolationTable::from_x_and_y: one region of the points zip(x, y)    *)
FromXAndY(x, y, interpolation_scheme) ==
    IF Len(x) # Len(y) THEN Panic
    ELSE Some(<< [scheme |-> interpolation_scheme,
                  pts |-> [i \in 1..Len(x) |-> <<x[i], y[i]>>]] >>)

(* The InterpolationTable a tabulated or equiprobable-bins distribution    *)
(* wraps, built by its constructor from the CDF as x and the cosines as y. *)
TableOf(distribution) ==
    FromXAndY(distribution.x, distribution.y, distribution.scheme).v

(* SampleAngle::sample_cos_theta of the three variants: 2u - 1, or         *)
(* interpolate(u) on the wrapped table.                                    *)
SampleCosTheta(distribution, unitf64) ==
    IF distribution.tag = "Isotropic" THEN Ok([expr |-> "isotropic", u |-> unitf64])
    ELSE Interpolate(TableOf(distribution), unitf64)

(* position(|&e| e > energy): the first grid point above the energy.       *)
PositionAbove(energy_grid, energy) ==
    IF \E i \in DOMAIN energy_grid : energy_grid[i] > energy
    THEN Some((CHOOSE i \in DOMAIN energy_grid :
                  /\ energy_grid[i] > energy
                  /\ \A j \in 1..(i - 1) : ~(energy_grid[j] > energy)) - 1)
    ELSE NoneR

(* self.energy.iter().position(|&e| e >= energy), 0-based                  *)
Position(energy_grid, energy) ==
    IF \E i \in DOMAIN energy_grid : energy_grid[i] >= energy
    THEN Some((CHOOSE i \in DOMAIN energy_grid :
                  /\ energy_grid[i] >= energy
                  /\ \A j \in 1..(i - 1) : ~(energy_grid[j] >= energy)) - 1)
    ELSE NoneR

(* lower_sample + (upper_sample - lower_sample) * factor, with factor      *)
(* (energy - e0) / (e1 - e0), kept as the expression.                      *)
Blend(lower_sample, upper_sample, energy, e0, e1) ==
    [expr |-> "blend", s0 |-> lower_sample, s1 |-> upper_sample,
     e |-> energy, e0 |-> e0, e1 |-> e1]

(* EnergyDependentAngularDistribution::sample_cos_theta_at_energy          *)
SampleCosThetaAtEnergy(self, energy, unitf64) ==
    IF Len(self.energy) = 0 THEN Panic
    ELSE IF energy < self.energy[1] \/ energy > Last(self.energy) THEN Err
    ELSE LET pos == Position(self.energy, energy)
         IN  IF pos = NoneR THEN Panic
             ELSE LET energy_index == pos.v
                  IN  IF energy = At(self.energy, energy_index)
                      THEN IF ~InR(self.distributions, energy_index) THEN Panic
                           ELSE SampleCosTheta(At(self.distributions, energy_index), unitf64)
                      ELSE IF \/ energy_index - 1 < 0
                              \/ ~InR(self.distributions, energy_index)
                           THEN Panic
                      ELSE LET lower_sample ==
                                   SampleCosTheta(At(self.distributions, energy_index - 1),
                                                  unitf64)
                               upper_sample ==
                                   SampleCosTheta(At(self.distributions, energy_index),
                                                  unitf64)
                           IN  IF lower_sample.tag # "ok" THEN lower_sample
                               ELSE IF upper_sample.tag # "ok" THEN upper_sample
                               ELSE Ok(Blend(lower_sample.v, upper_sample.v, energy,
                                             At(self.energy, energy_index - 1),
                                             At(self.energy, energy_index)))

-----------------------------------------------------------------------------
(* Angular distributions on their own: the members of an energy-dependent  *)
(* distribution are constructed one by one, as make_test_distribution and  *)
(* AND::process do, or new_fully_isotropic is called; then one call of     *)
(* sample_cos_theta_at_energy.                                             *)

(* Arguments of TabulatedAngularDistribution::new: well formed, empty, of  *)
(* unequal lengths, with cosines beyond 1, with a CDF that starts above 0, *)
(* and with a scheme other than Histogram and LinLin.                      *)
TabulatedCalls ==
    { [ctor |-> "Tabulated", scheme |-> s, cos |-> a[1], cdf |-> a[2]] :
        s \in {"Histogram", "LinLin"},
        a \in { << <<-1, 0, 1>>, <<0, Unit \div 2, Unit>> >>,
                << <<>>, <<>> >>,
                << <<-1, 1>>, <<0, Unit \div 2, Unit>> >>,
                << <<-2, 2>>, <<0, Unit>> >>,
                << <<-1, 1>>, <<Unit \div 4, Unit>> >> } }
    \cup { [ctor |-> "Tabulated", scheme |-> "LogLog",
            cos |-> <<-1, 0, 1>>, cdf |-> <<0, Unit \div 2, Unit>>] }

(* Arguments of EquiprobableBinsAngularDistribution::new: 33 cosines in    *)
(* ascending and in descending order, 33 cosines one of which is 2, and 4  *)
(* cosines.                                                                *)
EquiprobableCalls ==
    { [ctor |-> "EquiprobableBins", bins |-> b] :
        b \in { [j \in 1..CAPACITY |-> IF j <= 16 THEN -1 ELSE IF j = 17 THEN 0 ELSE 1],
                [j \in 1..CAPACITY |-> IF j <= 16 THEN 1 ELSE IF j = 17 THEN 0 ELSE -1],
                [j \in 1..CAPACITY |-> IF j <= 16 THEN -1 ELSE IF j = 17 THEN 0 ELSE 2],
                <<-1, 0, 0, 1>> } }

MemberCalls == {[ctor |-> "Isotropic"]} \cup TabulatedCalls \cup EquiprobableCalls

(* The ascending energy grid of n points.                                  *)
EnergyGrid(n) == [i \in 1..n |-> 10 * i]

(* The energies asked for: the grid points, the middle of every interval,  *)
(* one energy below and one above the grid.                                *)
QueryEnergies == { 5 * j : j \in 1..(2 * MaxGrid + 1) }

(* The random numbers 0, 0.25, 0.5 and 1.                                  *)
QueryUs == {0, Unit \div 4, Unit \div 2, Unit}

InitAngle ==
    /\ ResolverIdle
    /\ arrays = NoArrays(<<>>)
    /\ sl = Idle
    /\ cv = Idle
    /\ tb = Idle
    /\ dg = Idle
    /\ ad \in { [tag |-> "args", by |-> "members", calls |-> c, results |-> <<>>,
                  dist |-> NoneR, e |-> en, u |-> u, out |-> NoneR] :
                  c \in UNION { [1..n -> MemberCalls] : n \in 1..MaxGrid },
                  en \in QueryEnergies, u \in QueryUs }
          \cup
              { [tag |-> "args", by |-> "new_fully_isotropic", calls |-> <<>>,
                  results |-> <<>>, dist |-> NoneR, e |-> en, u |-> u, out |-> NoneR] :
                  en \in {0, TinyEnergy, 150, TopEnergy, TopEnergy + 1}, u \in QueryUs }

(* The call that constructs the next member.                               *)
NextCall == ad.calls[Len(ad.results) + 1]

Constructing(ctor) ==
    /\ ad.tag = "args"
    /\ ad.by = "members"
    /\ Len(ad.results) < Len(ad.calls)
    /\ NextCall.ctor = ctor

(* The state after a constructor has returned r.                           *)
Constructed(r) ==
    [ad EXCEPT !.results = Append(@, r),
               !.tag = IF r.tag = "ok" THEN "args" ELSE "rejected"]

(* AngularDistribution::Isotropic(IsotropicAngularDistribution {})         *)
MakeIsotropic ==
    /\ Constructing("Isotropic")
    /\ ad' = Constructed(Ok([tag |-> "Isotropic"]))
    /\ UNCHANGED <<resolverVars, cv, sl, tb, dg>>

(* TabulatedAngularDistribution::new(scheme, cos, cdf)                     *)
MakeTabulatedMember ==
    /\ Constructing("Tabulated")
    /\ ad' = Constructed(TabulatedNew(NextCall.scheme, NextCall.cos, NextCall.cdf))
    /\ UNCHANGED <<resolverVars, cv, sl, tb, dg>>

(* EquiprobableBinsAngularDistribution::new(bins)                          *)
MakeEquiprobableMember ==
    /\ Constructing("EquiprobableBins")
    /\ ad' = Constructed(EquiprobableNew(NextCall.bins))
    /\ UNCHANGED <<resolverVars, cv, sl, tb, dg>>

(* EnergyDependentAngularDistribution { energy, distributions } of the     *)
(* constructed members, then sample_cos_theta_at_energy(e, u).             *)
SampleMembers ==
    /\ ad.tag = "args"
    /\ ad.by = "members"
    /\ Len(ad.results) = Len(ad.calls)
    /\ LET self == [energy |-> EnergyGrid(Len(ad.calls)),
                    distributions |-> [i \in DOMAIN ad.results |-> ad.results[i].v]]
       IN  ad' = [ad EXCEPT !.tag = "sampled", !.dist = Some(self),
                            !.out = SampleCosThetaAtEnergy(self, ad.e, ad.u)]
    /\ UNCHANGED <<resolverVars, cv, sl, tb, dg>>

(* new_fully_isotropic(), then sample_cos_theta_at_energy(e, u).           *)
SampleFullyIsotropic ==
    /\ ad.tag = "args"
    /\ ad.by = "new_fully_isotropic"
    /\ ad' = [ad EXCEPT !.tag = "sampled", !.dist = Some(NewFullyIsotropic),
                        !.out = SampleCosThetaAtEnergy(NewFullyIsotropic, ad.e, ad.u)]
    /\ UNCHANGED <<resolverVars, cv, sl, tb, dg>>

NextAngle ==
    \/ MakeIsotropic
    \/ MakeTabulatedMember
    \/ MakeEquiprobableMember
    \/ SampleMembers
    \/ SampleFullyIsotropic

SpecAngle == InitAngle /\ [][NextAngle]_vars

-----------------------------------------------------------------------------
(* Properties of the angular distributions                                 *)

Sampled == ad.tag = "sampled"

(* The index of the grid point at the energy asked for, 0 when off grid.   *)
GridIndex ==
    IF \E i \in DOMAIN ad.dist.v.energy : ad.dist.v.energy[i] = ad.e
    THEN CHOOSE i \in DOMAIN ad.dist.v.energy : ad.dist.v.energy[i] = ad.e
    ELSE 0

(* C22: on an ascending grid sample_cos_theta_at_energy(E, u) returns an   *)
(* error when E is below the first or above the last grid energy, the      *)
(* sample of distributions[i] alone when E is the grid energy i, and       *)
(* otherwise s0 + (s1 - s0) * (E - E0) / (E1 - E0) for the adjacent grid   *)
(* energies E0 < E < E1 and the samples s0, s1 of their distributions at   *)
(* the same u.                                                             *)
C22_SampleAtEnergy ==
    Sampled =>
        LET en == ad.dist.v.energy
            ds == ad.dist.v.distributions
        IN  IF ad.e < en[1] \/ ad.e > Last(en) THEN ad.out = Err
            ELSE IF GridIndex # 0 THEN ad.out = SampleCosTheta(ds[GridIndex], ad.u)
            ELSE \E i \in 1..(Len(en) - 1) :
                    /\ en[i] < ad.e /\ ad.e < en[i + 1]
                    /\ LET s0 == SampleCosTheta(ds[i], ad.u)
                           s1 == SampleCosTheta(ds[i + 1], ad.u)
                       IN  IF s0.tag = "ok" /\ s1.tag = "ok"
                           THEN ad.out = Ok(Blend(s0.v, s1.v, ad.e, en[i], en[i + 1]))
                           ELSE ad.out.tag # "ok"

(* A blend of an isotropic and a tabulated member at an energy between     *)
(* their grid points.                                                      *)
C22_Witness ==
    /\ Sampled
    /\ ad.by = "members"
    /\ Len(ad.calls) = 2
    /\ ad.calls[1].ctor = "Isotropic"
    /\ ad.calls[2].ctor = "Tabulated"
    /\ ad.e = 15
    /\ ad.out.tag = "ok"
    /\ ad.out.v.expr = "blend"

(* The number a sampled cosine expression stands for, as <<n, d>> for the  *)
(* fraction n / d with d > 0.                                              *)
ValueOf(v) ==
    CASE v.expr = "exact" -> <<v.y, 1>>
      [] v.expr = "isotropic" -> <<2 * v.u - Unit, Unit>>
      [] v.expr = "LinLin" ->
            <<v.y0 * (v.x1 - v.x0) + (v.y1 - v.y0) * (v.x - v.x0), v.x1 - v.x0>>

(* -1 <= n / d <= 1                                                        *)
InCosineRange(r) == -r[2] <= r[1] /\ r[1] <= r[2]

(* C23: for every energy-dependent distribution composed of constructed    *)
(* members or built by new_fully_isotropic, every on-grid energy and every *)
(* u in {0, 0.5, 1}, sampling succeeds and returns a value in [-1, 1].     *)
C23_SamplingDomain ==
    (Sampled /\ GridIndex # 0 /\ ad.u \in {0, Unit \div 2, Unit}) =>
        /\ ad.out.tag = "ok"
        /\ InCosineRange(ValueOf(ad.out.v))

(* C24: TabulatedAngularDistribution::new returns an error unless the      *)
(* scheme is Histogram or LinLin and cos and cdf have equal, non-zero      *)
(* length; on success x is cdf and y is cos, and sampling a constructed    *)
(* tabulated distribution does not panic.                                  *)
C24_TabulatedNew ==
    /\ \A k \in DOMAIN ad.results :
          ad.calls[k].ctor = "Tabulated" =>
              IF /\ ad.calls[k].scheme \in {"Histogram", "LinLin"}
                 /\ Len(ad.calls[k].cos) = Len(ad.calls[k].cdf)
                 /\ Len(ad.calls[k].cos) # 0
              THEN /\ ad.results[k].tag = "ok"
                   /\ ad.results[k].v.x = ad.calls[k].cdf
                   /\ ad.results[k].v.y = ad.calls[k].cos
              ELSE ad.results[k] = Err
    /\ (Sampled /\ GridIndex # 0) => ad.out # Panic

-----------------------------------------------------------------------------
(* Properties of Header::from_ACE, on the texts of the conversion          *)

(* Header::from_ACE has returned.                                          *)
HeaderRead == cv # Idle /\ cv.pcv # "start"

(* C25: on a text whose first line indicates version >= 2.0.0 but holds no *)
(* SZAID as its second token, Header::from_ACE fails with an error and     *)
(* returns no header; on a legacy first line it returns szaid = None with  *)
(* the ZAID, AWR and kT of line 1.                                         *)
C25_MissingSzaid ==
    HeaderRead =>
        /\ (cv.text.header.v2 /\ Len(cv.text.header.first) < 2) => cv.header = Err
        /\ (/\ ~cv.text.header.v2
            /\ ParseF64(cv.text.header.legacy[2]).tag = "some"
            /\ ParseF64(cv.text.header.legacy[3]).tag = "some") =>
               cv.header = Some([zaid |-> cv.text.header.first[1],
                                 szaid |-> NoneR,
                                 atomic_mass_fraction |-> ParseF64(cv.text.header.legacy[2]).v,
                                 kT |-> ParseF64(cv.text.header.legacy[3]).v])

-----------------------------------------------------------------------------
(* The words AND::process reads                                            *)

(* The 1-based position in AND of the last word read for a per-energy      *)
(* locator: the last CDF value of the tabulated record at |l|              *)
(* (and.rs:201-214), the last of the 33 words data[l .. l + 33]            *)
(* (and.rs:171).                                                           *)
LocatorReadEnd(l) ==
    IF l < 0 THEN Abs(l) + 1 + 3 * WordOf("AND", Abs(l) + 1) ELSE l + CAPACITY

(* The 1-based position in AND of the last word read for the reaction      *)
(* record at LAND offset off: n_E, the energies, the locators and the      *)
(* records the non-zero locators address.                                  *)
ReactionReadEnd(off) ==
    LET n_E == WordOf("AND", off)
    IN  SetMax({off + 2 * n_E}
               \cup { LocatorReadEnd(WordOf("AND", off + n_E + j)) :
                        j \in { k \in 1..n_E : WordOf("AND", off + n_E + k) # 0 } })

(* C26: every word AND::process reads, for every reaction with a record,   *)
(* lies inside the slice AND::pull_from_xxs_array returned.                *)
C26_ReadsInsideSlice ==
    (pc = "process" /\ ParseOrder[cur] = "AND") =>
        \A off \in LandOffsets : ReactionReadEnd(off) <= Len(data.words)

-----------------------------------------------------------------------------
(* C27: whenever the process step of LQR, TYR or SIG is invoked, MTR is    *)
(* present, and for SIG also LSIG and ESZ; whenever the process step of    *)
(* AND is invoked, LAND is present.                                        *)
C27_DependenciesPresent ==
    (pc \in {"process", "sig"}) =>
        /\ ParseOrder[cur] \in {"LQR", "TYR", "SIG"} => blocks["MTR"].tag = "some"
        /\ ParseOrder[cur] = "SIG" =>
              blocks["LSIG"].tag = "some" /\ blocks["ESZ"].tag = "some"
        /\ ParseOrder[cur] = "AND" => blocks["LAND"].tag = "some"

(* The process step of SIG is under way in a file with reactions, after    *)
(* LQR was processed.                                                      *)
C27_Witness ==
    /\ pc = "sig"
    /\ ParseOrder[cur] = "SIG"
    /\ blocks["MTR"].tag = "some"
    /\ blocks["LQR"].tag = "some"
    /\ arrays.nxs.ntr > 0

-----------------------------------------------------------------------------
(* C28: in every from_PACE that returns Ok on a file whose NU block starts *)
(* with a positive word, the one formulation is stored as prompt and total *)
(* is absent; a run that stores it as total does not return Ok.            *)
C28_SinglePrompt ==
    (/\ pc = "done"
     /\ blocks["NU"].tag = "some"
     /\ NuFirstWord > 0) =>
        /\ blocks["NU"].v.prompt # NoneR
        /\ blocks["NU"].v.total = NoneR

(* A parse that returned Ok on a file with a single tabulated NU           *)
(* formulation.                                                            *)
C28_Witness ==
    /\ pc = "done"
    /\ blocks["NU"].tag = "some"
    /\ NuFirstWord > 0
    /\ blocks["NU"].v.prompt.tag = "some"
    /\ blocks["NU"].v.prompt.v.tag = "Tabulated"
    /\ blocks["NU"].v.total = NoneR
    /\ blocks["DNU"].tag = "some"

-----------------------------------------------------------------------------
(* async_task_dag/dag.rs: AsyncTaskDag::execute.  A graph is [n, parents,  *)
(* outcome]: the tasks 1..n with key i for task i, the parents of each     *)
(* task, and what each task's function does once started ("ok", "err", or  *)
(* "panic").  A spawned task is "spawned" until the runtime first polls    *)
(* it, "running" until its function returns, "finished" until join_next    *)
(* hands it to execute; tasks still in the JoinSet when execute returns    *)
(* are aborted by the drop of the JoinSet.                                 *)

MaxTasks == 3

(* Graphs whose edges all go from a task added earlier to one added later, *)
(* and the same graphs with every edge turned round.                       *)
ForwardParents(n) == { p \in [1..n -> SUBSET (1..n)] : \A t \in 1..n : p[t] \subseteq 1..(t - 1) }

TurnedRound(p, n) == [t \in 1..n |-> { c \in 1..n : t \in p[c] }]

(* At most one task fails.                                                 *)
Outcomes(n) ==
    { o \in [1..n -> {"ok", "err", "panic"}] :
        Cardinality({ t \in 1..n : o[t] # "ok" }) <= 1 }

Dags ==
    UNION { { [n |-> n, parents |-> p, outcome |-> o] :
                p \in ForwardParents(n) \cup { TurnedRound(q, n) : q \in ForwardParents(n) },
                o \in Outcomes(n) } : n \in 0..MaxTasks }

(* The while condition of a loop that goes round once more.                *)
NotAllCompletedOffByOne(completed_tasks, n) == Cardinality(completed_tasks) <= n

(* completed_tasks.len() < self.dag.raw_nodes().len() (dag.rs:102)         *)
NotAllCompleted(completed_tasks, n) == Cardinality(completed_tasks) < n

(* The test on the parents left out.                                       *)
DependenciesIgnored(parents, task_id, completed_tasks) == TRUE

(* tasks_dependencies_finished (dag.rs:111-113)                            *)
TasksDependenciesFinished(parents, task_id, completed_tasks) ==
    \A dep \in parents[task_id] : dep \in completed_tasks

(* The tasks one pass of the for loop spawns (dag.rs:104-129); the pass    *)
(* changes neither completed_tasks nor the tasks it skips as in progress,  *)
(* so the order of sorted_tasks does not change the set.                   *)
ReadyTasks(g, completed_tasks, in_progress_tasks) ==
    { task_id \in 1..g.n :
        /\ task_id \notin completed_tasks
        /\ task_id \notin in_progress_tasks
        /\ TasksDependenciesFinished(g.parents, task_id, completed_tasks) }

(* The tasks in the JoinSet.                                               *)
InJoinSet == { t \in 1..dg.g.n : dg.phase[t] \in {"spawned", "running", "finished"} }

InitDag ==
    /\ ResolverIdle
    /\ arrays = NoArrays(<<>>)
    /\ sl = Idle
    /\ cv = Idle
    /\ tb = Idle
    /\ ad = Idle
    /\ dg \in { [pcx |-> "loop", g |-> g, completed_tasks |-> {}, in_progress_tasks |-> {},
                  phase |-> [t \in 1..g.n |-> "waiting"],
                  starts |-> [t \in 1..g.n |-> 0],
                  results |-> EmptyMap, ret |-> NoneR, failed |-> 0] : g \in Dags }

(* The while test holds: one pass of the for loop, then join_next().await  *)
(* (dag.rs:102-132).                                                       *)
SpawnPass ==
    /\ dg # Idle
    /\ dg.pcx = "loop"
    /\ NotAllCompleted(dg.completed_tasks, dg.g.n)
    /\ LET ready == ReadyTasks(dg.g, dg.completed_tasks, dg.in_progress_tasks)
       IN  dg' = [dg EXCEPT !.pcx = "join",
                            !.in_progress_tasks = @ \cup ready,
                            !.phase = [t \in 1..dg.g.n |->
                                          IF t \in ready THEN "spawned" ELSE @[t]]]
    /\ UNCHANGED <<resolverVars, cv, sl, tb, ad>>

(* The while test fails: Ok(()) (dag.rs:147).                              *)
ExecuteOk ==
    /\ dg # Idle
    /\ dg.pcx = "loop"
    /\ ~NotAllCompleted(dg.completed_tasks, dg.g.n)
    /\ dg' = [dg EXCEPT !.pcx = "returned", !.ret = Ok(<<>>)]
    /\ UNCHANGED <<resolverVars, cv, sl, tb, ad>>

(* The runtime polls a spawned task for the first time: task_function is   *)
(* called (dag.rs:122-125).                                                *)
TaskStart(t) ==
    /\ dg # Idle
    /\ dg.pcx # "returned"
    /\ dg.phase[t] = "spawned"
    /\ dg' = [dg EXCEPT !.phase[t] = "running", !.starts[t] = @ + 1]
    /\ UNCHANGED <<resolverVars, cv, sl, tb, ad>>

(* The task's function returns or panics.                                  *)
TaskFinish(t) ==
    /\ dg # Idle
    /\ dg.phase[t] = "running"
    /\ dg' = [dg EXCEPT !.phase[t] = "finished"]
    /\ UNCHANGED <<resolverVars, cv, sl, tb, ad>>

(* join_next().await and the match on its result (dag.rs:132-145): None at *)
(* once from an empty JoinSet, else any task that has finished.            *)
JoinNext ==
    /\ dg # Idle
    /\ dg.pcx = "join"
    /\ IF InJoinSet = {}
       THEN dg' = [dg EXCEPT !.pcx = "loop"]
       ELSE \E t \in InJoinSet :
             /\ dg.phase[t] = "finished"
             /\ dg' = IF dg.g.outcome[t] = "ok"
                      THEN [dg EXCEPT !.pcx = "loop",
                                      !.results = Insert(@, t, t),
                                      !.completed_tasks = @ \cup {t},
                                      !.in_progress_tasks = @ \ {t},
                                      !.phase[t] = "joined"]
                      ELSE [dg EXCEPT !.pcx = "returned", !.ret = Err, !.failed = t,
                                      !.phase = [u \in 1..dg.g.n |->
                                                   IF u = t THEN "joined"
                                                   ELSE IF u \in InJoinSet THEN "aborted"
                                                   ELSE @[u]]]
    /\ UNCHANGED <<resolverVars, cv, sl, tb, ad>>

NextDag ==
    \/ SpawnPass
    \/ ExecuteOk
    \/ \E t \in 1..MaxTasks : dg # Idle /\ t \in 1..dg.g.n /\ TaskStart(t)
    \/ \E t \in 1..MaxTasks : dg # Idle /\ t \in 1..dg.g.n /\ TaskFinish(t)
    \/ JoinNext

SpecDag == InitDag /\ [][NextDag]_vars

(* The runtime goes on polling the tasks and execute.                      *)
SpecDagFair == SpecDag /\ WF_vars(NextDag)

-----------------------------------------------------------------------------
(* Properties of AsyncTaskDag::execute                                     *)

(* C29: a task's function is started only after every parent has completed *)
(* successfully and its result is in the results map, and each task is     *)
(* started at most once.                                                   *)
C29_StartAfterParents ==
    \A t \in 1..dg.g.n :
        /\ dg.starts[t] <= 1
        /\ dg.phase[t] # "waiting" =>
              \A p \in dg.g.parents[t] :
                  /\ p \in dg.completed_tasks
                  /\ dg.g.outcome[p] = "ok"
                  /\ p \in DOMAIN dg.results

(* Two tasks without unfinished parents are running at the same time, one  *)
(* of them a child whose parent has completed.                             *)
C29_Witness ==
    \E t, u \in 1..dg.g.n :
        /\ t # u
        /\ dg.phase[t] = "running"
        /\ dg.phase[u] = "running"
        /\ dg.g.parents[t] # {}
        /\ dg.g.parents[t] \subseteq dg.completed_tasks

(* The tasks reached from task t along parent -> child edges.              *)
Dependents(t) ==
    LET step(S) == S \cup { c \in 1..dg.g.n : dg.g.parents[c] \cap S # {} }
        d1 == step({t})
        d2 == step(d1)
        d3 == step(d2)
    IN  step(d3) \ {t}

Returned == dg.pcx = "returned"

(* C30: execute returns; when every task function succeeds it returns      *)
(* Ok(()) with a result under every task's key; when a joined task has     *)
(* failed it returns Err, no task is started after that, and no dependent  *)
(* of the failed task was ever started.                                    *)
C30_Terminates ==
    /\ <>Returned
    /\ [](Returned =>
            IF \A t \in 1..dg.g.n : dg.g.outcome[t] = "ok"
            THEN dg.ret = Ok(<<>>) /\ \A t \in 1..dg.g.n : t \in DOMAIN dg.results
            ELSE /\ dg.ret = Err
                 /\ dg.g.outcome[dg.failed] # "ok"
                 /\ \A d \in Dependents(dg.failed) : dg.starts[d] = 0)
    /\ [][Returned => dg'.starts = dg.starts]_vars

(* execute has returned Err on a graph in which the failed task has a      *)
(* dependent, while another task was still in the JoinSet.                 *)
C30_Witness ==
    /\ Returned
    /\ dg.ret = Err
    /\ Dependents(dg.failed) # {}
    /\ \E t \in 1..dg.g.n : dg.phase[t] = "aborted"

====
